---- MODULE Spec2Model ----
(***************************************************************************)
(* Session lifecycle of bubble-bot (src/main.rs): the foreground task      *)
(* run_shell / run_claude / run_chief, the signal listener spawned by      *)
(* spawn_signal_handler, the shared CleanupState registry behind a         *)
(* tokio Mutex, and the container engine they both talk to.                *)
(*                                                                         *)
(* Every listener position is an await point of the spawned task; one      *)
(* listener action runs the task from one await point to the next.  The    *)
(* foreground runs on the thread that drives main, so the two interleave   *)
(* freely.  That machine is Spec.                                          *)
(*                                                                         *)
(* The operations the session calls are specified one by one after it:     *)
(* SpecTag (ImageBuilder::compute_tag, with SHA-256 computed in full),     *)
(* SpecBuild (ImageBuilder::build), SpecNet (NetworkManager), SpecCtr      *)
(* (ContainerManager::cleanup_existing and the creations that follow it), *)
(* SpecNames (the two matches_stale_prefix functions and the names given   *)
(* to resources), SpecReady (ContainerManager::wait_for_ready), SpecHooks  *)
(* (HookRunner), SpecServices (collect_services and                        *)
(* collect_service_env_vars), SpecStale (stop_and_remove and the two       *)
(* cleanup_stale functions), SpecMain (main and the dry run), SpecClean    *)
(* (Cleaner::clean) and SpecCli (Config::apply_container_flags).           *)
(***************************************************************************)
EXTENDS Integers, Sequences, FiniteSets, TLC

\* ---------------------------------------------------------------- bounds
MaxServices == 2
MaxSignals == 1

\* ------------------------------------------------------------- constants
SIGINT == 2
SIGTERM == 15
SignalExitCode == 130
ErrorExitCode == 1
IndeterminateExitCode == 1

\* Option<T>: None is the empty sequence, Some(x) is <<x>>.
None == <<>>
Some(x) == <<x>>

Range(s) == {s[i] : i \in 1..Len(s)}

Procs == {"fg", "sig"}
Signals == {SIGINT, SIGTERM}

\* Exit codes `docker exec` can hand back through ExitStatus::code().
ExecCodes == {0, 1, 130}
ExecStatuses == {None} \cup {Some(c) : c \in ExecCodes}

DevId == "dev"
NetName == "net"

\* services::collect_services: mysql, then redis, then postgres.
collect_services_databases_first(c) ==
    (IF c.mysql THEN <<"mysql">> ELSE <<>>)
      \o (IF c.postgres THEN <<"postgres">> ELSE <<>>)
      \o (IF c.redis THEN <<"redis">> ELSE <<>>)
collect_services(c) ==
    (IF c.mysql THEN <<"mysql">> ELSE <<>>)
      \o (IF c.redis THEN <<"redis">> ELSE <<>>)
      \o (IF c.postgres THEN <<"postgres">> ELSE <<>>)

Configs ==
    {c \in [mysql : BOOLEAN, redis : BOOLEAN, postgres : BOOLEAN] :
        Len(collect_services(c)) <= MaxServices}

\* CleanupState::default()
DefaultCleanupState ==
    [docker |-> None, dev_container_id |-> None,
     service_container_ids |-> <<>>, network_name |-> None]

\* The registry as run_shell constructs it.
NewCleanupState ==
    [DefaultCleanupState EXCEPT !.docker = Some("engine"),
                                !.network_name = Some(NetName)]

VARIABLES
    services,     \* collect_services(config) of this session
    pc,           \* foreground position in run_shell
    svcIdx,       \* start_services: index of the service being started
    service_ids,  \* start_services: the local service_ids vector
    exit_code,    \* run_shell: Option of the local exit_code
    reg,          \* the CleanupState behind the mutex
    lock,         \* who holds the mutex: "free", "fg" or "sig"
    lpc,          \* listener task position
    td,           \* per caller: the frame of its CleanupState::cleanup call
    aborted,      \* signal_handle.abort() has been called
    handlers,     \* the process-wide signal handlers are installed
    pending,      \* signals delivered to the installed handlers
    nsig,         \* number of signals delivered so far
    sigSeen,      \* Option: the signal whose select! branch ran
    containers,   \* engine: ids of the containers that exist
    netUp,        \* engine: the network exists
    exited,       \* [path, code]: how the process ended, path "none" while running
    created,      \* history: resources this session created
    registered,   \* history: ids and names ever put in the registry
    calls,        \* history, per caller: teardown calls issued, in order
    snap,         \* history, per caller: Option of the registry at cleanup entry
    priorReturn,  \* history, per caller: cleanReturn when this cleanup was entered
    atEntry,      \* history, per caller: the containers that existed at cleanup entry
    failedSteps,  \* history, per caller: teardown calls that returned an error
    execStatus,   \* history: Option of the ExitStatus::code() the exec returned
    cleanReturn,  \* history: a cleanup has returned and nothing was registered since
    fgLog         \* history: the setup calls run_shell has made, with their results

sessionVars == <<services, pc, svcIdx, service_ids, exit_code, reg, lock, lpc, td,
                 aborted, handlers, pending, nsig, sigSeen, containers, netUp, exited,
                 created, registered, calls, snap, priorReturn, atEntry, failedSteps, execStatus,
                 cleanReturn, fgLog>>


\* The variables below belong to the specifications of single operations
\* (compute_tag, build, the network and container managers, the name
\* matchers).  A session leaves them at rest; each of those specifications
\* leaves the session at rest.
VARIABLES
    texts,             \* compute_tag: the pair of Dockerfile texts tagged
    tags,              \* compute_tag: the tags returned so far, in call order
    bpc,               \* build: position in ImageBuilder::build
    build_args,        \* build: [dockerfile_content, no_cache]
    engine_images,     \* engine: tags of the images that exist
    build_tag,         \* build: Option of the local tag
    stream,            \* build: items the build stream has still to yield
    consumed,          \* history: items build took from the stream
    submitted,         \* history: build_image was called
    images_at_call,    \* history: engine_images when build was called
    build_result,      \* build: Option of the Result it returned
    engine_networks,   \* engine: names of the networks that exist
    net_log,           \* history: NetworkManager calls with what they did
    engine_containers, \* engine: [id, name] of the containers that exist
    ctr_log,           \* history: cleanup_existing calls with what they did
    create_log,        \* history: container creations with the engine they met
    match_in,          \* matches_stale_prefix: Option of the case checked
    match_out,         \* matches_stale_prefix: Option of the result
    ready_args,        \* wait_for_ready: [service, max_retries, interval_secs]
    rpc,               \* wait_for_ready: position in the retry loop
    attempt,           \* wait_for_ready: the loop variable
    ready_log,         \* history: probes executed and sleeps taken, in order
    ready_result,      \* wait_for_ready: Option of the Result it returned
    hook_cfg,          \* HookRunner: [post_start, pre_stop] command lists
    hook_phase,        \* HookRunner: the phase running, "off" or "returned"
    hook_idx,          \* HookRunner: index of the next command of the phase
    hook_log,          \* history: commands attempted with their outcomes
    svc_config,        \* services: Option of [project, mysql, redis, postgres]
    svc_list,          \* services: Option of what collect_services returned
    svc_env,           \* services: Option of collect_service_env_vars' result
    stale_containers,  \* engine: the containers that exist
    stale_networks,    \* engine: names of the networks that exist
    stale_log,         \* history: stop_and_remove and cleanup_stale calls
    main_cli,          \* main: Option of the parsed command line
    main_config,       \* main: Option of what Config::load returned
    main_pc,           \* main: position in main and the function it runs
    main_effects,      \* history: what main did outside the process
    main_out,          \* history: the sections printed to stdout
    main_result,       \* main: Option of the Result it returned
    clean_args,        \* clean: Option of [remove_volumes]
    clean_pc,          \* clean: position in Cleaner::clean
    clean_engine,      \* engine: [images, networks, volumes] that exist
    clean_before,      \* history: the engine when clean was called
    clean_calls,       \* history: the removal calls clean has issued
    clean_result,      \* clean: Option of the Result it returned
    cli_argv,          \* apply_cli: the container options given on the command line
    cli_flags,         \* apply_cli: Option of the ContainerFlags clap parsed
    cli_file,          \* apply_cli: config.container as the files left it
    cli_config         \* apply_cli: Option of config.container afterwards

tagVars == <<texts, tags>>
buildVars == <<bpc, build_args, engine_images, build_tag, stream, consumed,
               submitted, images_at_call, build_result>>
netVars == <<engine_networks, net_log>>
ctrVars == <<engine_containers, ctr_log, create_log>>
nameVars == <<match_in, match_out>>
readyVars == <<ready_args, rpc, attempt, ready_log, ready_result>>
hookVars == <<hook_cfg, hook_phase, hook_idx, hook_log>>
svcVars == <<svc_config, svc_list, svc_env>>
staleVars == <<stale_containers, stale_networks, stale_log>>
cleanVars == <<clean_args, clean_pc, clean_engine, clean_before, clean_calls,
               clean_result>>
cliVars == <<cli_argv, cli_flags, cli_file, cli_config>>
mainVars == <<main_cli, main_config, main_pc, main_effects, main_out, main_result>>
unitVars == <<tagVars, buildVars, netVars, ctrVars, nameVars, readyVars, hookVars, svcVars, staleVars, mainVars, cleanVars, cliVars>>

vars == <<sessionVars, unitVars>>

TagIdle == texts = <<>> /\ tags = <<>>

BuildIdle ==
    /\ bpc = "off"
    /\ build_args = None
    /\ engine_images = {}
    /\ build_tag = None
    /\ stream = <<>>
    /\ consumed = <<>>
    /\ submitted = FALSE
    /\ images_at_call = {}
    /\ build_result = None

NetIdle == engine_networks = {} /\ net_log = <<>>

CtrIdle == engine_containers = {} /\ ctr_log = <<>> /\ create_log = <<>>

StaleIdle ==
    stale_containers = {} /\ stale_networks = {} /\ stale_log = <<>>

MainIdle ==
    /\ main_cli = None
    /\ main_config = None
    /\ main_pc = "off"
    /\ main_effects = {}
    /\ main_out = <<>>
    /\ main_result = None

CleanIdle ==
    /\ clean_args = None
    /\ clean_pc = "off"
    /\ clean_engine = [images |-> {}, networks |-> {}, volumes |-> {}]
    /\ clean_before = [images |-> {}, networks |-> {}, volumes |-> {}]
    /\ clean_calls = {}
    /\ clean_result = None

CliIdle ==
    /\ cli_argv = None
    /\ cli_flags = None
    /\ cli_file = None
    /\ cli_config = None

NamesIdle == match_in = None /\ match_out = None

ReadyIdle ==
    /\ ready_args = None
    /\ rpc = "off"
    /\ attempt = 0
    /\ ready_log = <<>>
    /\ ready_result = None

HooksIdle ==
    /\ hook_cfg = None
    /\ hook_phase = "off"
    /\ hook_idx = 0
    /\ hook_log = <<>>

ServicesIdle == svc_config = None /\ svc_list = None /\ svc_env = None

IdleFrame == [pc |-> "idle", cur |-> None, rest |-> <<>>]

Init ==
    /\ services \in {collect_services(c) : c \in Configs}
    /\ pc = "prepare"
    /\ svcIdx = 1
    /\ service_ids = <<>>
    /\ exit_code = None
    /\ reg = DefaultCleanupState
    /\ lock = "free"
    /\ lpc = "none"
    /\ td = [p \in Procs |-> IdleFrame]
    /\ aborted = FALSE
    /\ handlers = FALSE
    /\ pending = {}
    /\ nsig = 0
    /\ sigSeen = None
    /\ containers = {}
    /\ netUp \in BOOLEAN
    /\ exited = [path |-> "none", code |-> 0]
    /\ created = {}
    /\ registered = {}
    /\ calls = [p \in Procs |-> <<>>]
    /\ snap = [p \in Procs |-> None]
    /\ priorReturn = [p \in Procs |-> FALSE]
    /\ atEntry = [p \in Procs |-> {}]
    /\ failedSteps = [p \in Procs |-> {}]
    /\ execStatus = None
    /\ cleanReturn = FALSE
    /\ fgLog = <<>>
    /\ TagIdle /\ BuildIdle /\ NetIdle /\ CtrIdle /\ NamesIdle /\ ReadyIdle /\ HooksIdle /\ ServicesIdle /\ StaleIdle /\ MainIdle /\ CleanIdle /\ CliIdle

\* The session at rest: no process, nothing registered, nothing created.
SessionOff ==
    /\ services = <<>>
    /\ pc = "off"
    /\ svcIdx = 1
    /\ service_ids = <<>>
    /\ exit_code = None
    /\ reg = DefaultCleanupState
    /\ lock = "free"
    /\ lpc = "none"
    /\ td = [p \in Procs |-> IdleFrame]
    /\ aborted = FALSE
    /\ handlers = FALSE
    /\ pending = {}
    /\ nsig = 0
    /\ sigSeen = None
    /\ containers = {}
    /\ netUp = FALSE
    /\ exited = [path |-> "off", code |-> 0]
    /\ created = {}
    /\ registered = {}
    /\ calls = [p \in Procs |-> <<>>]
    /\ snap = [p \in Procs |-> None]
    /\ priorReturn = [p \in Procs |-> FALSE]
    /\ atEntry = [p \in Procs |-> {}]
    /\ failedSteps = [p \in Procs |-> {}]
    /\ execStatus = None
    /\ cleanReturn = FALSE
    /\ fgLog = <<>>

Running == exited.path = "none"

\* A lock() that is granted whoever holds the mutex.
LockIgnored == TRUE

\* Mutex::lock().await is granted only while nobody holds the mutex
\* (main.rs:96, 615, 640, 656).
LockFree == lock = "free"

\* ------------------------------------------------- CleanupState::cleanup

\* A take that reads the field and leaves it in place.
TakeKeep(opt) == opt

\* Option::take leaves None behind (main.rs:47, 55, 69).
Take(opt) == None

\* A drain that yields the ids last to first.
DrainOrderReversed(ids) == [i \in 1..Len(ids) |-> ids[Len(ids) + 1 - i]]

\* Vec::drain(..) yields the ids in vector order (main.rs:62).
DrainOrder(ids) == ids

\* A cleanup that returns at the first failed call.
NextStageStopOnError(stage, ok) ==
    IF ~ok THEN "ret"
    ELSE CASE stage = "dev" -> "drain"
           [] stage = "svc" -> "svc"
           [] stage = "net" -> "ret"

\* The stage cleanup goes to once the call of `stage` has returned with
\* result ok: `if let Err(e) = ... { warn!(...) }` only logs (main.rs:56-72).
NextStage(stage, ok) ==
    CASE stage = "dev" -> "drain"
      [] stage = "svc" -> "svc"
      [] stage = "net" -> "ret"

\* A drain over the vector start_services is filling (main.rs:277-284).
StartedIds(r) == service_ids

\* self.service_container_ids.drain(..) (main.rs:62).
DrainedIds(r) == r.service_container_ids

StopAndRemove(id) == [op |-> "stop_and_remove", id |-> id]
RemoveNetwork(name) == [op |-> "remove_network", id |-> name]

\* Runs cleanup from `stage` up to its next await point.  r is the registry,
\* rest the ids the Drain iterator has not yielded yet.  The result is the
\* registry, the frame of the call and the teardown call issued, if any.
RECURSIVE Advance(_, _, _)
Advance(stage, r, rest) ==
    CASE stage = "dev" ->
            IF r.dev_container_id # None
            THEN [reg |-> [r EXCEPT !.dev_container_id = Take(r.dev_container_id)],
                  frame |-> [pc |-> "dev_stop", cur |-> r.dev_container_id, rest |-> <<>>],
                  call |-> <<StopAndRemove(r.dev_container_id[1])>>]
            ELSE Advance("drain", r, <<>>)
      [] stage = "drain" ->
            Advance("svc", [r EXCEPT !.service_container_ids = <<>>],
                    DrainOrder(DrainedIds(r)))
      [] stage = "svc" ->
            IF rest # <<>>
            THEN [reg |-> r,
                  frame |-> [pc |-> "svc_stop", cur |-> Some(Head(rest)), rest |-> Tail(rest)],
                  call |-> <<StopAndRemove(Head(rest))>>]
            ELSE Advance("net", r, <<>>)
      [] stage = "net" ->
            IF r.network_name # None
            THEN [reg |-> [r EXCEPT !.network_name = Take(r.network_name)],
                  frame |-> [pc |-> "net_rm", cur |-> r.network_name, rest |-> <<>>],
                  call |-> <<RemoveNetwork(r.network_name[1])>>]
            ELSE Advance("ret", r, <<>>)
      [] stage = "ret" ->
            [reg |-> r, frame |-> [pc |-> "returned", cur |-> None, rest |-> <<>>],
             call |-> <<>>]

\* Applies the result of Advance for caller p; the guard is dropped when
\* cleanup returns.
Proceed(p, res) ==
    /\ reg' = res.reg
    /\ td' = [td EXCEPT ![p] = res.frame]
    /\ calls' = [calls EXCEPT ![p] = calls[p] \o res.call]
    /\ lock' = IF res.frame.pc = "returned" THEN "free" ELSE p
    /\ cleanReturn' = IF res.frame.pc = "returned" THEN TRUE ELSE cleanReturn

\* Caller p may enter cleanup / may resume its cleanup from an await point.
\* An aborted task is never polled again once it has yielded.
MayEnter(p) ==
    IF p = "fg" THEN pc = "cleanup" /\ td[p].pc = "idle"
    ELSE lpc = "woken" \/ (lpc = "lockwait" /\ ~aborted)

MayResume(p) ==
    IF p = "fg" THEN pc = "cleanup" ELSE lpc = "cleanup" /\ ~aborted

\* state.lock().await.cleanup(): lock, docker.take(), run to the first await.
CleanupEnter(p) ==
    /\ Running /\ MayEnter(p) /\ LockFree
    /\ snap' = [snap EXCEPT ![p] = Some(reg)]
    /\ priorReturn' = [priorReturn EXCEPT ![p] = cleanReturn]
    /\ atEntry' = [atEntry EXCEPT ![p] = containers]
    /\ IF reg.docker = None
       THEN Proceed(p, Advance("ret", reg, <<>>))
       ELSE Proceed(p, Advance("dev", [reg EXCEPT !.docker = Take(reg.docker)], <<>>))
    /\ lpc' = IF p = "sig" THEN "cleanup" ELSE lpc
    /\ UNCHANGED <<services, pc, svcIdx, service_ids, exit_code, aborted, handlers,
                   pending, nsig, sigSeen, containers, netUp, exited, created,
                   registered, failedSteps, execStatus, fgLog>>
    /\ UNCHANGED unitVars

\* stop_and_remove: stop_container has returned, its result is dropped, and
\* remove_container is issued (containers.rs:301-315).
StopReturn(p) ==
    /\ Running /\ MayResume(p)
    /\ td[p].pc \in {"dev_stop", "svc_stop"}
    /\ td' = [td EXCEPT ![p].pc = IF td[p].pc = "dev_stop" THEN "dev_rm" ELSE "svc_rm"]
    /\ UNCHANGED <<services, pc, svcIdx, service_ids, exit_code, reg, lock, lpc,
                   aborted, handlers, pending, nsig, sigSeen, containers, netUp,
                   exited, created, registered, calls, snap, priorReturn, atEntry,
                   failedSteps, execStatus,
                   cleanReturn, fgLog>>
    /\ UNCHANGED unitVars

\* stop_and_remove: remove_container has returned; cleanup logs an error and
\* goes on (containers.rs:306-319, main.rs:55-66).
RemoveReturn(p) ==
    /\ Running /\ MayResume(p)
    /\ td[p].pc \in {"dev_rm", "svc_rm"}
    /\ \E ok \in BOOLEAN :
        /\ ok => td[p].cur[1] \in containers
        /\ containers' = IF ok THEN containers \ {td[p].cur[1]} ELSE containers
        /\ failedSteps' = [failedSteps EXCEPT ![p] =
                              IF ok THEN @ ELSE @ \cup {td[p].cur[1]}]
        /\ Proceed(p, Advance(NextStage(IF td[p].pc = "dev_rm" THEN "dev" ELSE "svc", ok),
                              reg, td[p].rest))
    /\ UNCHANGED <<services, pc, svcIdx, service_ids, exit_code, lpc, aborted,
                   handlers, pending, nsig, sigSeen, netUp, exited, created,
                   registered, snap, priorReturn, atEntry, execStatus, fgLog>>
    /\ UNCHANGED unitVars

\* remove_network has returned; the engine refuses while endpoints are
\* attached or the network is gone (networks.rs:98-108, main.rs:69-73).
NetRemoveReturn(p) ==
    /\ Running /\ MayResume(p)
    /\ td[p].pc = "net_rm"
    /\ \E ok \in BOOLEAN :
        /\ ok => (netUp /\ containers = {})
        /\ netUp' = IF ok THEN FALSE ELSE netUp
        /\ failedSteps' = [failedSteps EXCEPT ![p] =
                              IF ok THEN @ ELSE @ \cup {td[p].cur[1]}]
        /\ Proceed(p, Advance(NextStage("net", ok), reg, <<>>))
    /\ UNCHANGED <<services, pc, svcIdx, service_ids, exit_code, lpc, aborted,
                   handlers, pending, nsig, sigSeen, containers, exited, created,
                   registered, snap, priorReturn, atEntry, execStatus, fgLog>>
    /\ UNCHANGED unitVars

\* ------------------------------------------------------------ foreground

\* One entry of fgLog: the call, what it was made on, whether it returned Ok.
Call(op, arg, ok) == [op |-> op, arg |-> arg, ok |-> ok]

\* A `?` that drops the error and goes on.
TryIgnore(ok) == TRUE

\* The `?` operator: run_shell goes on only after an Ok (main.rs:606, 618).
Try(ok) == ok

\* `?` on an Err: run_shell returns it, main returns it, the runtime is
\* dropped and the process ends with status 1.  No cleanup call is on
\* this path.
Fatal == exited' = [path |-> "error", code |-> ErrorExitCode]

\* An exec result that maps a missing code to success.
ExitCodeOfOrZero(status) == IF status = None THEN 0 ELSE status[1]

\* ExitStatus::code().unwrap_or(1) (containers.rs:227, 246).
ExitCodeOf(status) == IF status = None THEN IndeterminateExitCode ELSE status[1]

\* run_shell up to the registry: render, build the image, resolve the
\* token, collect the services (main.rs:547-594).
FgPrepare ==
    /\ Running /\ pc = "prepare"
    /\ \E ok \in BOOLEAN :
        IF ok THEN pc' = "construct" /\ UNCHANGED exited
              ELSE Fatal /\ UNCHANGED pc
    /\ UNCHANGED <<services, svcIdx, service_ids, exit_code, reg, lock, lpc, td,
                   aborted, handlers, pending, nsig, sigSeen, containers, netUp,
                   created, registered, calls, snap, priorReturn, atEntry, failedSteps,
                   execStatus,
                   cleanReturn, fgLog>>
    /\ UNCHANGED unitVars

\* The registry is built and the listener task spawned (main.rs:597-602).
FgConstruct ==
    /\ Running /\ pc = "construct"
    /\ reg' = NewCleanupState
    /\ registered' = registered \cup {NetName}
    /\ lpc' = "spawned"
    /\ cleanReturn' = FALSE
    /\ pc' = "ensure_network"
    /\ UNCHANGED <<services, svcIdx, service_ids, exit_code, lock, td, aborted,
                   handlers, pending, nsig, sigSeen, containers, netUp, exited,
                   created, calls, snap, priorReturn, atEntry, failedSteps, execStatus, fgLog>>
    /\ UNCHANGED unitVars

\* A start_services loop that ends after its first pass.
AfterServicesEarly(i) ==
    IF i > Len(services) \/ i > 1 THEN "register_services" ELSE "start_service"

AfterServices(i) == IF i > Len(services) THEN "register_services" ELSE "start_service"

\* network_mgr.ensure_network(&network_name).await? (main.rs:606,
\* networks.rs:21-42): reuse an existing network, else create one.
FgEnsureNetwork ==
    /\ Running /\ pc = "ensure_network"
    /\ \E ok \in BOOLEAN :
        /\ fgLog' = Append(fgLog, Call("ensure_network", NetName, ok))
        /\ netUp' = (netUp \/ ok)
        /\ created' = IF ok /\ ~netUp THEN created \cup {NetName} ELSE created
        /\ IF Try(ok) THEN pc' = AfterServices(svcIdx) /\ UNCHANGED exited
                      ELSE Fatal /\ UNCHANGED pc
    /\ UNCHANGED <<services, svcIdx, service_ids, exit_code, reg, lock, lpc, td,
                   aborted, handlers, pending, nsig, sigSeen, containers,
                   registered, calls, snap, priorReturn, atEntry, failedSteps, execStatus,
                   cleanReturn>>
    /\ UNCHANGED unitVars

\* The three ways a create-then-start pair ends (containers.rs:195-211,
\* 376-392): nothing created, created but not started, created and started.
CreateOutcomes == {"not_created", "start_failed", "started"}

\* container_mgr.start_service(...).await? (main.rs:280-282).
FgStartService ==
    /\ Running /\ pc = "start_service"
    /\ \E out \in CreateOutcomes :
        /\ IF out = "not_created"
           THEN UNCHANGED <<containers, created>>
           ELSE /\ containers' = containers \cup {services[svcIdx]}
                /\ created' = created \cup {services[svcIdx]}
        /\ fgLog' = Append(fgLog, Call("start_service", services[svcIdx], out = "started"))
        /\ IF out = "started"
           THEN pc' = "wait_ready" /\ UNCHANGED exited
           ELSE Fatal /\ UNCHANGED pc
    /\ UNCHANGED <<services, svcIdx, service_ids, exit_code, reg, lock, lpc, td,
                   aborted, handlers, pending, nsig, sigSeen, netUp, registered,
                   calls, snap, priorReturn, atEntry, failedSteps, execStatus,
                   cleanReturn>>
    /\ UNCHANGED unitVars

\* container_mgr.wait_for_ready(&id, ..., 30, 2)?; service_ids.push(id)
\* (main.rs:283-284).
FgWaitReady ==
    /\ Running /\ pc = "wait_ready"
    /\ \E ready \in BOOLEAN :
        /\ fgLog' = Append(fgLog, Call("wait_for_ready", services[svcIdx], ready))
        /\ IF ready
           THEN /\ service_ids' = Append(service_ids, services[svcIdx])
                /\ svcIdx' = svcIdx + 1
                /\ pc' = AfterServices(svcIdx + 1)
                /\ UNCHANGED exited
           ELSE Fatal /\ UNCHANGED <<service_ids, svcIdx, pc>>
    /\ UNCHANGED <<services, exit_code, reg, lock, lpc, td, aborted, handlers,
                   pending, nsig, sigSeen, containers, netUp, created, registered,
                   calls, snap, priorReturn, atEntry, failedSteps, execStatus,
                   cleanReturn>>
    /\ UNCHANGED unitVars

\* cleanup_state.lock().await.service_container_ids = service_ids.clone()
\* (main.rs:615).
FgRegisterServices ==
    /\ Running /\ pc = "register_services" /\ LockFree
    /\ reg' = [reg EXCEPT !.service_container_ids = service_ids]
    /\ registered' = registered \cup Range(service_ids)
    /\ cleanReturn' = FALSE
    /\ pc' = "cleanup_existing"
    /\ UNCHANGED <<services, svcIdx, service_ids, exit_code, lock, lpc, td,
                   aborted, handlers, pending, nsig, sigSeen, containers, netUp,
                   exited, created, calls, snap, priorReturn, atEntry, failedSteps,
                   execStatus, fgLog>>
    /\ UNCHANGED unitVars

\* container_mgr.cleanup_existing(&container_name).await? (main.rs:618).
FgCleanupExisting ==
    /\ Running /\ pc = "cleanup_existing"
    /\ \E ok \in BOOLEAN :
        /\ fgLog' = Append(fgLog, Call("cleanup_existing", DevId, ok))
        /\ IF Try(ok) THEN pc' = "create_and_start" /\ UNCHANGED exited
                      ELSE Fatal /\ UNCHANGED pc
    /\ UNCHANGED <<services, svcIdx, service_ids, exit_code, reg, lock, lpc, td,
                   aborted, handlers, pending, nsig, sigSeen, containers, netUp,
                   created, registered, calls, snap, priorReturn, atEntry, failedSteps,
                   execStatus, cleanReturn>>
    /\ UNCHANGED unitVars

\* container_mgr.create_and_start(&opts).await? (main.rs:637).
FgCreateAndStart ==
    /\ Running /\ pc = "create_and_start"
    /\ \E out \in CreateOutcomes :
        /\ IF out = "not_created"
           THEN UNCHANGED <<containers, created>>
           ELSE /\ containers' = containers \cup {DevId}
                /\ created' = created \cup {DevId}
        /\ fgLog' = Append(fgLog, Call("create_and_start", DevId, out = "started"))
        /\ IF out = "started"
           THEN pc' = "register_dev" /\ UNCHANGED exited
           ELSE Fatal /\ UNCHANGED pc
    /\ UNCHANGED <<services, svcIdx, service_ids, exit_code, reg, lock, lpc, td,
                   aborted, handlers, pending, nsig, sigSeen, netUp, registered,
                   calls, snap, priorReturn, atEntry, failedSteps, execStatus,
                   cleanReturn>>
    /\ UNCHANGED unitVars

\* cleanup_state.lock().await.dev_container_id = Some(container_id.clone())
\* (main.rs:640).
FgRegisterDev ==
    /\ Running /\ pc = "register_dev" /\ LockFree
    /\ reg' = [reg EXCEPT !.dev_container_id = Some(DevId)]
    /\ registered' = registered \cup {DevId}
    /\ cleanReturn' = FALSE
    /\ pc' = "post_start"
    /\ UNCHANGED <<services, svcIdx, service_ids, exit_code, lock, lpc, td,
                   aborted, handlers, pending, nsig, sigSeen, containers, netUp,
                   exited, created, calls, snap, priorReturn, atEntry, failedSteps,
                   execStatus, fgLog>>
    /\ UNCHANGED unitVars

\* The dev container exists and no teardown has issued stop_and_remove on
\* it: what `docker exec <id> sh -c <cmd>` of a hook needs (hooks.rs:51-56).
DevUntouched ==
    /\ DevId \in containers
    /\ \A p \in Procs : \A i \in 1..Len(calls[p]) : calls[p][i].id # DevId

\* hook_runner.run_post_start() (main.rs:643-644): never fails the session.
\* The log entry records whether the hooks met the dev container.
FgPostStart ==
    /\ Running /\ pc = "post_start"
    /\ fgLog' = Append(fgLog, Call("run_post_start", DevId, DevUntouched))
    /\ pc' = "exec_spawn"
    /\ UNCHANGED <<services, svcIdx, service_ids, exit_code, reg, lock, lpc, td,
                   aborted, handlers, pending, nsig, sigSeen, containers, netUp,
                   exited, created, registered, calls, snap, priorReturn, atEntry,
                   failedSteps, execStatus,
                   cleanReturn>>
    /\ UNCHANGED unitVars

\* exec_interactive_shell: spawning `docker exec -it` (containers.rs:219-225).
FgExecSpawn ==
    /\ Running /\ pc = "exec_spawn"
    /\ \E ok \in BOOLEAN :
        IF ok THEN pc' = "exec" /\ UNCHANGED exited
              ELSE Fatal /\ UNCHANGED pc
    /\ UNCHANGED <<services, svcIdx, service_ids, exit_code, reg, lock, lpc, td,
                   aborted, handlers, pending, nsig, sigSeen, containers, netUp,
                   created, registered, calls, snap, priorReturn, atEntry, failedSteps,
                   execStatus,
                   cleanReturn, fgLog>>
    /\ UNCHANGED unitVars

\* The blocking exec returns (main.rs:647, containers.rs:227).
FgExecReturn ==
    /\ Running /\ pc = "exec"
    /\ \E status \in ExecStatuses :
        /\ execStatus' = Some(status)
        /\ exit_code' = Some(ExitCodeOf(status))
    /\ pc' = "abort"
    /\ UNCHANGED <<services, svcIdx, service_ids, reg, lock, lpc, td, aborted,
                   handlers, pending, nsig, sigSeen, containers, netUp, exited,
                   created, registered, calls, snap, priorReturn, atEntry, failedSteps,
                   cleanReturn, fgLog>>
    /\ UNCHANGED unitVars

\* signal_handle.abort() (main.rs:650).
FgAbort ==
    /\ Running /\ pc = "abort"
    /\ aborted' = TRUE
    /\ pc' = "pre_stop"
    /\ UNCHANGED <<services, svcIdx, service_ids, exit_code, reg, lock, lpc, td,
                   handlers, pending, nsig, sigSeen, containers, netUp, exited,
                   created, registered, calls, snap, priorReturn, atEntry, failedSteps,
                   execStatus,
                   cleanReturn, fgLog>>
    /\ UNCHANGED unitVars

\* hook_runner.run_pre_stop() (main.rs:653).
FgPreStop ==
    /\ Running /\ pc = "pre_stop"
    /\ fgLog' = Append(fgLog, Call("run_pre_stop", DevId, DevUntouched))
    /\ pc' = "cleanup"
    /\ UNCHANGED <<services, svcIdx, service_ids, exit_code, reg, lock, lpc, td,
                   aborted, handlers, pending, nsig, sigSeen, containers, netUp,
                   exited, created, registered, calls, snap, priorReturn, atEntry,
                   failedSteps, execStatus,
                   cleanReturn>>
    /\ UNCHANGED unitVars

\* After cleanup: process::exit(exit_code) when it is not 0, else Ok(())
\* and main returns (main.rs:658-662).
FgExit ==
    /\ Running /\ pc = "cleanup" /\ td["fg"].pc = "returned"
    /\ exited' = [path |-> "normal",
                  code |-> IF exit_code[1] # 0 THEN exit_code[1] ELSE 0]
    /\ UNCHANGED <<services, pc, svcIdx, service_ids, exit_code, reg, lock, lpc,
                   td, aborted, handlers, pending, nsig, sigSeen, containers,
                   netUp, created, registered, calls, snap, priorReturn, atEntry,
                   failedSteps, execStatus,
                   cleanReturn, fgLog>>
    /\ UNCHANGED unitVars

\* -------------------------------------------------------------- listener

\* First poll of the spawned task: ctrl_c() and signal(terminate()) install
\* the handlers, select! finds neither ready (main.rs:82-87).
ListenerArm ==
    /\ Running /\ lpc = "spawned" /\ ~aborted
    /\ handlers' = TRUE
    /\ lpc' = "select"
    /\ UNCHANGED <<services, pc, svcIdx, service_ids, exit_code, reg, lock, td,
                   aborted, pending, nsig, sigSeen, containers, netUp, exited,
                   created, registered, calls, snap, priorReturn, atEntry, failedSteps,
                   execStatus,
                   cleanReturn, fgLog>>
    /\ UNCHANGED unitVars

\* The environment sends SIGINT or SIGTERM.  Without installed handlers the
\* default disposition ends the process at once.
Signal ==
    /\ Running /\ nsig < MaxSignals
    /\ \E s \in Signals :
        IF handlers
        THEN pending' = pending \cup {s} /\ UNCHANGED exited
        ELSE exited' = [path |-> "killed", code |-> 128 + s] /\ UNCHANGED pending
    /\ nsig' = nsig + 1
    /\ UNCHANGED <<services, pc, svcIdx, service_ids, exit_code, reg, lock, lpc,
                   td, aborted, handlers, sigSeen, containers, netUp, created,
                   registered, calls, snap, priorReturn, atEntry, failedSteps, execStatus,
                   cleanReturn, fgLog>>
    /\ UNCHANGED unitVars

\* select! completes on a delivered signal and logs it (main.rs:87-94).
ListenerWake ==
    /\ Running /\ lpc = "select" /\ ~aborted
    /\ \E s \in pending : sigSeen' = Some(s)
    /\ lpc' = "woken"
    /\ UNCHANGED <<services, pc, svcIdx, service_ids, exit_code, reg, lock, td,
                   aborted, handlers, pending, nsig, containers, netUp, exited,
                   created, registered, calls, snap, priorReturn, atEntry, failedSteps,
                   execStatus,
                   cleanReturn, fgLog>>
    /\ UNCHANGED unitVars

\* state.lock().await finds the mutex held and yields (main.rs:96).
ListenerLockBusy ==
    /\ Running /\ lpc = "woken" /\ lock # "free"
    /\ lpc' = "lockwait"
    /\ UNCHANGED <<services, pc, svcIdx, service_ids, exit_code, reg, lock, td,
                   aborted, handlers, pending, nsig, sigSeen, containers, netUp,
                   exited, created, registered, calls, snap, priorReturn, atEntry,
                   failedSteps, execStatus,
                   cleanReturn, fgLog>>
    /\ UNCHANGED unitVars

\* The await points of the listener task.
ListenerYielded ==
    \/ lpc \in {"spawned", "select", "lockwait"}
    \/ lpc = "cleanup" /\ td["sig"].pc \in {"dev_stop", "dev_rm", "svc_stop", "svc_rm", "net_rm"}

\* A dropped future that leaves the mutex locked.
GuardKept(holder) == holder

\* Dropping the listener's future drops the MutexGuard it holds, which
\* unlocks the mutex (main.rs:96, 650).
GuardDropped(holder) == IF holder = "sig" THEN "free" ELSE holder

\* JoinHandle::abort takes effect at an await point: the future is dropped,
\* and with it the MutexGuard and the Drain iterator (main.rs:650).
ListenerCancel ==
    /\ Running /\ aborted /\ ListenerYielded
    /\ lpc' = "cancelled"
    /\ lock' = GuardDropped(lock)
    /\ td' = [td EXCEPT !["sig"] = [pc |-> "cancelled", cur |-> None, rest |-> <<>>]]
    /\ UNCHANGED <<services, pc, svcIdx, service_ids, exit_code, reg, aborted,
                   handlers, pending, nsig, sigSeen, containers, netUp, exited,
                   created, registered, calls, snap, priorReturn, atEntry, failedSteps,
                   execStatus,
                   cleanReturn, fgLog>>
    /\ UNCHANGED unitVars

\* std::process::exit(130) (main.rs:97).
ListenerExit ==
    /\ Running /\ lpc = "cleanup" /\ td["sig"].pc = "returned"
    /\ exited' = [path |-> "signal", code |-> SignalExitCode]
    /\ UNCHANGED <<services, pc, svcIdx, service_ids, exit_code, reg, lock, lpc,
                   td, aborted, handlers, pending, nsig, sigSeen, containers,
                   netUp, created, registered, calls, snap, priorReturn, atEntry,
                   failedSteps, execStatus,
                   cleanReturn, fgLog>>
    /\ UNCHANGED unitVars

\* --------------------------------------------------------- specification

Next ==
    \/ FgPrepare
    \/ FgConstruct
    \/ FgEnsureNetwork
    \/ FgStartService
    \/ FgWaitReady
    \/ FgRegisterServices
    \/ FgCleanupExisting
    \/ FgCreateAndStart
    \/ FgRegisterDev
    \/ FgPostStart
    \/ FgExecSpawn
    \/ FgExecReturn
    \/ FgAbort
    \/ FgPreStop
    \/ FgExit
    \/ ListenerArm
    \/ Signal
    \/ ListenerWake
    \/ ListenerLockBusy
    \/ ListenerCancel
    \/ ListenerExit
    \/ \E p \in Procs : CleanupEnter(p)
    \/ \E p \in Procs : StopReturn(p)
    \/ \E p \in Procs : RemoveReturn(p)
    \/ \E p \in Procs : NetRemoveReturn(p)

Spec == Init /\ [][Next]_vars

\* The runtime polls every task that can run, and every engine call and
\* probe returns: each step of the foreground and of the listener is taken
\* if it stays possible.  Nothing is assumed of the environment's signals
\* nor of when the user ends the interactive exec.
Fairness ==
    /\ WF_vars(FgPrepare) /\ WF_vars(FgConstruct) /\ WF_vars(FgEnsureNetwork)
    /\ WF_vars(FgStartService) /\ WF_vars(FgWaitReady)
    /\ WF_vars(FgRegisterServices) /\ WF_vars(FgCleanupExisting)
    /\ WF_vars(FgCreateAndStart) /\ WF_vars(FgRegisterDev)
    /\ WF_vars(FgPostStart) /\ WF_vars(FgExecSpawn) /\ WF_vars(FgAbort)
    /\ WF_vars(FgPreStop) /\ WF_vars(FgExit)
    /\ WF_vars(ListenerArm) /\ WF_vars(ListenerWake)
    /\ WF_vars(ListenerLockBusy) /\ WF_vars(ListenerCancel)
    /\ WF_vars(ListenerExit)
    /\ \A p \in Procs :
          /\ WF_vars(CleanupEnter(p)) /\ WF_vars(StopReturn(p))
          /\ WF_vars(RemoveReturn(p)) /\ WF_vars(NetRemoveReturn(p))

FairSpec == Spec /\ Fairness

TypeOK ==
    /\ pc \in {"prepare", "construct", "ensure_network", "start_service",
               "wait_ready", "register_services", "cleanup_existing",
               "create_and_start", "register_dev", "post_start", "exec_spawn",
               "exec", "abort", "pre_stop", "cleanup"}
    /\ lpc \in {"none", "spawned", "select", "woken", "lockwait", "cleanup", "cancelled"}
    /\ lock \in {"free", "fg", "sig"}
    /\ exited.path \in {"none", "normal", "signal", "error", "killed"}
    /\ nsig \in 0..MaxSignals

\* ------------------------------------------------------------ properties

\* Ids and names a registry holds.
RegIds(r) ==
    Range(r.dev_container_id) \cup Range(r.service_container_ids)
        \cup Range(r.network_name)

RegEmpty(r) == r.docker = None /\ RegIds(r) = {}

AllCalls == calls["sig"] \o calls["fg"]

\* Everything some teardown has issued a removal call for.
Attempted == {c.id : c \in Range(AllCalls)}

IsPrefix(s, t) == Len(s) <= Len(t) /\ \A i \in 1..Len(s) : s[i] = t[i]

\* The calls one teardown owes a registry: dev container, service
\* containers in vector order, network.
ExpectedCalls(r) ==
    IF r.docker = None THEN <<>>
    ELSE (IF r.dev_container_id = None THEN <<>>
          ELSE <<StopAndRemove(r.dev_container_id[1])>>)
         \o [i \in 1..Len(r.service_container_ids) |->
                StopAndRemove(r.service_container_ids[i])]
         \o (IF r.network_name = None THEN <<>>
             ELSE <<RemoveNetwork(r.network_name[1])>>)

\* C1: when the process ends by the normal path or by the listener's exit,
\* a removal has been attempted for every container and network the session
\* created.
C1_CreatedAllAttempted ==
    exited.path \in {"normal", "signal"} => created \subseteq Attempted

\* C2: a fatal setup error after the registry exists ends the process with
\* a non-zero status only after teardown was invoked for what was registered.
C2_FatalTearsDown ==
    (exited.path = "error" /\ pc # "prepare")
        => (exited.code # 0 /\ registered \subseteq Attempted)

\* C3: once the listener has received a signal, the process ends through the
\* listener's exit, after the listener's teardown has issued a removal for
\* everything that was registered when it began.
C3_SignalTeardownCompletes ==
    (sigSeen # None /\ exited.path \in {"normal", "signal"})
        => /\ exited.path = "signal"
           /\ snap["sig"] # None
           /\ RegIds(snap["sig"][1]) \subseteq Attempted

\* C4: a cleanup entered after another cleanup has returned, with nothing
\* registered in between, issues no call and returns with the registry empty.
C4_SecondCleanupNoop ==
    \A p \in Procs :
        priorReturn[p] =>
            /\ calls[p] = <<>>
            /\ td[p].pc = "returned"
            /\ RegEmpty(reg)

C4_Witness ==
    \E p \in Procs : \E q \in Procs \ {p} :
        priorReturn[p] /\ td[p].pc = "returned" /\ Len(calls[q]) >= 3

\* C5: over both callers of cleanup, no container id and no network name
\* gets more than one removal call.
C5_AtMostOneRemoval ==
    \A i \in 1..Len(AllCalls) : \A j \in 1..Len(AllCalls) :
        i # j => AllCalls[i].id # AllCalls[j].id

C5_Witness ==
    /\ snap["fg"] # None /\ snap["sig"] # None
    /\ Len(AllCalls) >= 3
    /\ td["fg"].pc = "returned"

\* C6: the calls of one cleanup come in the order dev container, service
\* containers as the registry vector lists them, network.
C6_TeardownOrder ==
    \A p \in Procs :
        snap[p] # None => IsPrefix(calls[p], ExpectedCalls(snap[p][1]))

C6_Witness ==
    \E p \in Procs :
        /\ Len(calls[p]) = 4
        /\ calls[p][1].id = DevId
        /\ calls[p][4].op = "remove_network"

\* C7: a cleanup that has run to its end has issued every call it owed the
\* registry, whichever of its calls failed.
C7_FailuresDoNotBlock ==
    \A p \in Procs :
        td[p].pc = "returned" => calls[p] = ExpectedCalls(snap[p][1])

C7_Witness ==
    \E p \in Procs :
        /\ td[p].pc = "returned"
        /\ DevId \in failedSteps[p]
        /\ Len(calls[p]) >= 3
        /\ Cardinality(failedSteps[p]) >= 2

\* C8: while no teardown has begun, every container whose creation has
\* completed is in the registry before a readiness wait, the start of the
\* next service, a hook or the exec.
C8_RegisteredOnceCreated ==
    (Running /\ reg.docker # None
        /\ pc \in {"wait_ready", "start_service", "post_start", "exec_spawn", "exec"})
        => (created \ {NetName}) \subseteq RegIds(reg)

\* C9: the listener's exit code is 128 plus the number of the signal it
\* received.
C9_SignalExitCode ==
    exited.path = "signal" => exited.code = 128 + sigSeen[1]

\* C10: the normal path ends the process with the exec's exit code (1 when
\* the exec reported none), after the foreground cleanup has returned.
C10_NormalExitCode ==
    exited.path = "normal" =>
        /\ exited.code = (IF execStatus[1] = None THEN 1 ELSE execStatus[1][1])
        /\ td["fg"].pc = "returned"

C10_Witness ==
    /\ exited.path = "normal"
    /\ execStatus = Some(None)
    /\ exited.code = 1
    /\ Len(calls["fg"]) >= 2

\* fgLog entries before position i that returned Ok.
OkBefore(i, op, arg) ==
    \E j \in 1..(i - 1) : fgLog[j] = Call(op, arg, TRUE)

\* Every configured service has been started and has passed its readiness
\* wait before position i of fgLog.
ServicesReadyBefore(i) ==
    \A n \in 1..Len(services) :
        /\ OkBefore(i, "start_service", services[n])
        /\ OkBefore(i, "wait_for_ready", services[n])

\* C11: create_and_start for the dev container is called only after
\* cleanup_existing has returned Ok and after every configured service has
\* been started and found ready.
C11_DevCreateAfterCleanupAndServices ==
    \A i \in 1..Len(fgLog) :
        fgLog[i].op = "create_and_start" =>
            /\ OkBefore(i, "cleanup_existing", DevId)
            /\ ServicesReadyBefore(i)

C11_Witness ==
    /\ Len(services) = 2
    /\ \E i \in 1..Len(fgLog) : fgLog[i] = Call("create_and_start", DevId, TRUE)

\* C12 as stated: ensure_network is not called before every configured
\* service has been started and found ready.
C12_NetworkAfterServices ==
    \A i \in 1..Len(fgLog) :
        fgLog[i].op = "ensure_network" => ServicesReadyBefore(i)

\* C12 amended: no service is started before ensure_network has returned Ok.
C12_ServicesAfterNetwork ==
    \A i \in 1..Len(fgLog) :
        fgLog[i].op = "start_service" => OkBefore(i, "ensure_network", NetName)

C12_Witness ==
    \E i \in 1..Len(fgLog) : \E j \in 1..Len(fgLog) :
        /\ i < j
        /\ fgLog[i].op = "start_service"
        /\ fgLog[j].op = "start_service"

\* ============================================================ compute_tag
\* SHA-256 as Sha256::new / update / finalize compute it (FIPS 180-4).  A
\* 32-bit word is the pair <<high 16 bits, low 16 bits>>.

Half == 2 ^ 16

\* Bitwise exclusive-or and and of two n-bit numbers, n a power of two, by
\* halving the width.
RECURSIVE XorBits(_, _, _)
XorBits(a, b, n) ==
    IF n = 1 THEN (a + b) % 2
    ELSE LET p == 2 ^ (n \div 2)
         IN  XorBits(a \div p, b \div p, n \div 2) * p
                 + XorBits(a % p, b % p, n \div 2)

RECURSIVE AndBits(_, _, _)
AndBits(a, b, n) ==
    IF n = 1 THEN a * b
    ELSE LET p == 2 ^ (n \div 2)
         IN  AndBits(a \div p, b \div p, n \div 2) * p
                 + AndBits(a % p, b % p, n \div 2)

Xor16(a, b) == XorBits(a, b, 16)
And16(a, b) == AndBits(a, b, 16)

Xor(x, y) == <<Xor16(x[1], y[1]), Xor16(x[2], y[2])>>
And(x, y) == <<And16(x[1], y[1]), And16(x[2], y[2])>>
Not(x) == <<Half - 1 - x[1], Half - 1 - x[2]>>

\* Addition modulo 2^32.
Add(x, y) ==
    LET lo == x[2] + y[2]
        hi == x[1] + y[1] + (lo \div Half)
    IN  <<hi % Half, lo % Half>>

\* Rotate right by n < 16.
RotR16(x, n) ==
    LET p == 2 ^ n
        q == 2 ^ (16 - n)
    IN  <<(x[1] \div p) + (x[2] % p) * q, (x[2] \div p) + (x[1] % p) * q>>

RotR(x, n) == IF n >= 16 THEN RotR16(<<x[2], x[1]>>, n - 16) ELSE RotR16(x, n)

\* Shift right by n < 16.
ShR(x, n) ==
    LET p == 2 ^ n
        q == 2 ^ (16 - n)
    IN  <<x[1] \div p, (x[2] \div p) + (x[1] % p) * q>>

Ch(x, y, z) == Xor(And(x, y), And(Not(x), z))
Maj(x, y, z) == Xor(Xor(And(x, y), And(x, z)), And(y, z))
BigSigma0(x) == Xor(Xor(RotR(x, 2), RotR(x, 13)), RotR(x, 22))
BigSigma1(x) == Xor(Xor(RotR(x, 6), RotR(x, 11)), RotR(x, 25))
SmallSigma0(x) == Xor(Xor(RotR(x, 7), RotR(x, 18)), ShR(x, 3))
SmallSigma1(x) == Xor(Xor(RotR(x, 17), RotR(x, 19)), ShR(x, 10))

RoundConstants == <<
    <<17034, 12184>>, <<28983, 17553>>, <<46528, 64463>>, <<59829, 56229>>,
    <<14678, 49755>>, <<23025, 4593>>, <<37439, 33444>>, <<43804, 24277>>,
    <<55303, 43672>>, <<4739, 23297>>, <<9265, 34238>>, <<21772, 32195>>,
    <<29374, 23924>>, <<32990, 45566>>, <<39900, 1703>>, <<49563, 61812>>,
    <<58523, 27073>>, <<61374, 18310>>, <<4033, 40390>>, <<9228, 41420>>,
    <<11753, 11375>>, <<19060, 33962>>, <<23728, 43484>>, <<30457, 35034>>,
    <<38974, 20818>>, <<43057, 50797>>, <<45059, 10184>>, <<48985, 32711>>,
    <<50912, 3059>>, <<54695, 37191>>, <<1738, 25425>>, <<5161, 10599>>,
    <<10167, 2693>>, <<11803, 8504>>, <<19756, 28156>>, <<21304, 3347>>,
    <<25866, 29524>>, <<30314, 2747>>, <<33218, 51502>>, <<37490, 11397>>,
    <<41663, 59553>>, <<43034, 26187>>, <<49739, 35696>>, <<51052, 20899>>,
    <<53650, 59417>>, <<54937, 1572>>, <<62478, 13701>>, <<4202, 41072>>,
    <<6564, 49430>>, <<7735, 27656>>, <<10056, 30540>>, <<13488, 48309>>,
    <<14620, 3251>>, <<20184, 43594>>, <<23452, 51791>>, <<26670, 28659>>,
    <<29839, 33518>>, <<30885, 25455>>, <<33992, 30740>>, <<36039, 520>>,
    <<37054, 65530>>, <<42064, 27883>>, <<48889, 41975>>, <<50801, 30962>>
>>

InitialHash == <<
    <<27145, 58983>>, <<47975, 44677>>, <<15470, 62322>>, <<42319, 62778>>,
    <<20750, 21119>>, <<39685, 26764>>, <<8067, 55723>>, <<23520, 52505>>
>>

Zeros(n) == [i \in 1..n |-> 0]

\* The message followed by 0x80, zero bytes up to 56 modulo 64, and the
\* bit length as a 64-bit big-endian number.
Pad(bytes) ==
    LET len == Len(bytes)
        bits == 8 * len
    IN  bytes \o <<128>> \o Zeros((64 - ((len + 9) % 64)) % 64)
              \o <<0, 0, 0, 0, bits \div 16777216, (bits \div Half) % 256,
                   (bits \div 256) % 256, bits % 256>>

\* Big-endian word i (from 1) of a block of 64 bytes.
WordAt(block, i) ==
    <<block[4 * i - 3] * 256 + block[4 * i - 2],
      block[4 * i - 1] * 256 + block[4 * i]>>

\* The message schedule grown by one word from a block.
NextWord(w, block) ==
    LET t == Len(w) + 1
    IN  IF t <= 16 THEN WordAt(block, t)
        ELSE Add(Add(SmallSigma1(w[t - 2]), w[t - 7]),
                 Add(SmallSigma0(w[t - 15]), w[t - 16]))

\* The message schedule w grown to n words.
RECURSIVE Schedule(_, _, _)
Schedule(w, block, n) ==
    IF Len(w) >= n THEN w
    ELSE IF Len(w) + 1 = n THEN Append(w, NextWord(w, block))
    ELSE Schedule(Schedule(w, block, (Len(w) + n) \div 2), block, n)

\* One round on the working variables a..h held in s.
Round(s, k, w) ==
    LET t1 == Add(Add(Add(s[8], BigSigma1(s[5])), Ch(s[5], s[6], s[7])),
                  Add(k, w))
        t2 == Add(BigSigma0(s[1]), Maj(s[1], s[2], s[3]))
    IN  <<Add(t1, t2), s[1], s[2], s[3], Add(s[4], t1), s[5], s[6], s[7]>>

\* The working variables s after rounds from..to.
RECURSIVE Rounds(_, _, _, _)
Rounds(s, w, from, to) ==
    IF Len(s) = 0 THEN s
    ELSE IF from = to THEN Round(s, RoundConstants[from], w[from])
    ELSE LET mid == (from + to) \div 2
         IN  Rounds(Rounds(s, w, from, mid), w, mid + 1, to)

Compress(h, block) ==
    LET s == Rounds(h, Schedule(<<>>, block, 64), 1, 64)
    IN  <<Add(h[1], s[1]), Add(h[2], s[2]), Add(h[3], s[3]), Add(h[4], s[4]),
          Add(h[5], s[5]), Add(h[6], s[6]), Add(h[7], s[7]), Add(h[8], s[8])>>

RECURSIVE Blocks(_, _)
Blocks(h, padded) ==
    IF padded = <<>> THEN h
    ELSE Blocks(Compress(h, SubSeq(padded, 1, 64)),
                SubSeq(padded, 65, Len(padded)))

Sha256(bytes) == Blocks(InitialHash, Pad(bytes))

HexDigits == <<"0", "1", "2", "3", "4", "5", "6", "7", "8", "9",
               "a", "b", "c", "d", "e", "f">>

\* {:x} of 16 bits: four lower-case hex digits.
Hex16(n) ==
    <<HexDigits[(n \div 4096) + 1], HexDigits[((n \div 256) % 16) + 1],
      HexDigits[((n \div 16) % 16) + 1], HexDigits[(n % 16) + 1]>>

RECURSIVE HexOf(_)
HexOf(words) ==
    IF words = <<>> THEN <<>>
    ELSE Hex16(words[1][1]) \o Hex16(words[1][2]) \o HexOf(Tail(words))

TagHexLen == 12

TagPrefix == <<"b", "u", "b", "b", "l", "e", "-", "b", "o", "y", ":">>

\* A tag made of the whole digest.
compute_tag_full(dockerfile_content) ==
    TagPrefix \o HexOf(Sha256(dockerfile_content))

\* ImageBuilder::compute_tag (images.rs:32-39): "bubble-boy:" and the first
\* 12 characters of the lower-case hex digest of the text's bytes.
compute_tag(dockerfile_content) ==
    LET hex == HexOf(Sha256(dockerfile_content))
        prefix == SubSeq(hex, 1, TagHexLen)
    IN  TagPrefix \o prefix

\* Dockerfile texts, as the bytes of their UTF-8 encoding.

\* the empty text
TextEmpty ==
    <<>>

\* "FROM ubuntu:24.04\n"
TextUbuntu2404 ==
    <<70, 82, 79, 77, 32, 117, 98, 117, 110, 116, 117, 58, 50, 52, 46, 48,
      52, 10>>

\* "FROM ubuntu:22.04\n"
TextUbuntu2204 ==
    <<70, 82, 79, 77, 32, 117, 98, 117, 110, 116, 117, 58, 50, 50, 46, 48,
      52, 10>>

\* "FROM ubuntu:24.04\nRUN apt-get update && apt-get install -y git\n" (two hash blocks)
TextInstallGit ==
    <<70, 82, 79, 77, 32, 117, 98, 117, 110, 116, 117, 58, 50, 52, 46, 48,
      52, 10, 82, 85, 78, 32, 97, 112, 116, 45, 103, 101, 116, 32, 117,
      112, 100, 97, 116, 101, 32, 38, 38, 32, 97, 112, 116, 45, 103, 101,
      116, 32, 105, 110, 115, 116, 97, 108, 108, 32, 45, 121, 32, 103, 105,
      116, 10>>

\* "FROM scratch\n# 3381659\n"
TextScratchA ==
    <<70, 82, 79, 77, 32, 115, 99, 114, 97, 116, 99, 104, 10, 35, 32, 51,
      51, 56, 49, 54, 53, 57, 10>>

\* "FROM scratch\n# 37485650\n"
TextScratchB ==
    <<70, 82, 79, 77, 32, 115, 99, 114, 97, 116, 99, 104, 10, 35, 32, 51,
      55, 52, 56, 53, 54, 53, 48, 10>>

Texts == {TextEmpty, TextUbuntu2404, TextUbuntu2204, TextInstallGit,
          TextScratchA, TextScratchB}

MaxTagCalls == 2

TagInit ==
    /\ texts \in Texts \X Texts
    /\ tags = <<>>
    /\ SessionOff /\ BuildIdle /\ NetIdle /\ CtrIdle /\ NamesIdle /\ ReadyIdle /\ HooksIdle /\ ServicesIdle /\ StaleIdle /\ MainIdle /\ CleanIdle /\ CliIdle

\* One call of ImageBuilder::compute_tag on either text.
ComputeTag ==
    /\ Len(tags) < MaxTagCalls
    /\ \E i \in 1..2 :
        tags' = Append(tags, [text |-> texts[i], tag |-> compute_tag(texts[i])])
    /\ UNCHANGED <<texts, sessionVars, buildVars, netVars, ctrVars, nameVars, readyVars, hookVars, svcVars, staleVars, mainVars, cleanVars, cliVars>>

TagNext == ComputeTag

SpecTag == TagInit /\ [][TagNext]_vars

\* A tag of the documented shape: "bubble-boy:" and exactly 12 hex digits.
WellFormedTag(t) ==
    /\ Len(t) = Len(TagPrefix) + 12
    /\ SubSeq(t, 1, Len(TagPrefix)) = TagPrefix
    /\ \A i \in (Len(TagPrefix) + 1)..Len(t) : t[i] \in Range(HexDigits)

\* C15 as stated: every call on a text returns the same well-formed tag,
\* and two texts get the same tag exactly when they are equal byte for byte.
C15_TagIffSameText ==
    \A i \in 1..Len(tags) : \A j \in 1..Len(tags) :
        /\ WellFormedTag(tags[i].tag)
        /\ (tags[i].tag = tags[j].tag) <=> (tags[i].text = tags[j].text)

\* C15 amended: every call on a text returns the same well-formed tag, so
\* texts that are equal byte for byte get the same tag; texts that differ
\* may share a tag.
C15_TagStable ==
    \A i \in 1..Len(tags) : \A j \in 1..Len(tags) :
        /\ WellFormedTag(tags[i].tag)
        /\ (tags[i].text = tags[j].text) => (tags[i].tag = tags[j].tag)

C15_Witness ==
    /\ Len(tags) = 2
    /\ tags[1].text = tags[2].text
    /\ tags[1].text = TextUbuntu2404
    /\ texts[1] # texts[2]

\* Two texts that differ and were given one tag.
C15_Collision ==
    \E i \in 1..Len(tags) : \E j \in 1..Len(tags) :
        tags[i].text # tags[j].text /\ tags[i].tag = tags[j].tag

\* ================================================================== build

MaxStream == 3

\* What the build stream yields: Ok(BuildInfo) with its optional stream and
\* error fields, or Err(transport error).
BuildInfos ==
    {[ok |-> TRUE, stream |-> st, error |-> e] :
        st \in {None, Some("Step 1/1")}, e \in {None, Some("e1"), Some("e2")}}

StreamErrors == {[ok |-> FALSE, err |-> "reset"]}

StreamItems == BuildInfos \cup StreamErrors

Streams == UNION {[1..n -> StreamItems] : n \in 0..MaxStream}

BuildTexts == {TextUbuntu2404, TextScratchA}

\* Error messages are pairs <<what failed, the cause reported>>.
ListFailed == <<"failed to list Docker images", "engine">>
ContextFailed == <<"build context", "io">>

Ok(v) == [ok |-> TRUE, value |-> v]
Err(m) == [ok |-> FALSE, msg |-> m]

BuildResult(tag, cached) == [tag |-> tag, cached |-> cached]

BuildInit ==
    /\ bpc = "call"
    /\ build_args \in {Some([dockerfile_content |-> d, no_cache |-> nc]) :
                          d \in BuildTexts, nc \in BOOLEAN}
    /\ engine_images \in SUBSET {compute_tag(d) : d \in BuildTexts}
    /\ images_at_call = engine_images
    /\ build_tag = None
    /\ stream = <<>>
    /\ consumed = <<>>
    /\ submitted = FALSE
    /\ build_result = None
    /\ SessionOff /\ TagIdle /\ NetIdle /\ CtrIdle /\ NamesIdle /\ ReadyIdle /\ HooksIdle /\ ServicesIdle /\ StaleIdle /\ MainIdle /\ CleanIdle /\ CliIdle

\* list_images without the reference filter.
ListImagesUnfiltered(reference) == engine_images

\* list_images with a reference filter (images.rs:48-55).
ListImages(reference) == {t \in engine_images : t = reference}

\* compute_tag, then `!no_cache && self.image_exists(&tag).await?`
\* (images.rs:72-81): the listing is skipped under no_cache; a failed
\* listing is returned; a listed image is a cache hit.
BuildCheckCache ==
    /\ bpc = "call"
    /\ LET tag == compute_tag(build_args[1].dockerfile_content)
       IN  /\ build_tag' = Some(tag)
           /\ IF build_args[1].no_cache
              THEN bpc' = "pack" /\ UNCHANGED build_result
              ELSE \E listed \in BOOLEAN :
                    IF ~listed
                    THEN bpc' = "done" /\ build_result' = Some(Err(ListFailed))
                    ELSE IF ListImages(tag) # {}
                    THEN /\ bpc' = "done"
                         /\ build_result' = Some(Ok(BuildResult(tag, TRUE)))
                    ELSE bpc' = "pack" /\ UNCHANGED build_result
    /\ UNCHANGED <<build_args, engine_images, stream, consumed, submitted,
                   images_at_call>>
    /\ UNCHANGED <<sessionVars, tagVars, netVars, ctrVars, nameVars, readyVars, hookVars, svcVars, staleVars, mainVars, cleanVars, cliVars>>

\* create_build_context(...)? and build_image (images.rs:86-101): a failed
\* packaging is returned, else the build is submitted and its stream opens.
BuildSubmit ==
    /\ bpc = "pack"
    /\ \E packed \in BOOLEAN :
        IF ~packed
        THEN /\ bpc' = "done"
             /\ build_result' = Some(Err(ContextFailed))
             /\ UNCHANGED <<stream, submitted>>
        ELSE /\ bpc' = "stream"
             /\ submitted' = TRUE
             /\ stream' \in Streams
             /\ UNCHANGED build_result
    /\ UNCHANGED <<build_args, engine_images, build_tag, consumed,
                   images_at_call>>
    /\ UNCHANGED <<sessionVars, tagVars, netVars, ctrVars, nameVars, readyVars, hookVars, svcVars, staleVars, mainVars, cleanVars, cliVars>>

\* A stream item that fails the build only when the transport failed.
ItemFailureTransportOnly(item) ==
    IF item.ok THEN None
    ELSE Some(<<"Docker build stream error", item.err>>)

\* The match arms of the stream loop (images.rs:104-119): Option of the
\* error the item makes build return.
ItemFailure(item) ==
    IF item.ok
    THEN IF item.error # None
         THEN Some(<<"Docker build error", item.error[1]>>)
         ELSE None
    ELSE Some(<<"Docker build stream error", item.err>>)

\* One turn of `while let Some(result) = stream.next().await`
\* (images.rs:103-127); a stream that ended leaves the image tagged.
BuildStreamNext ==
    /\ bpc = "stream"
    /\ IF stream = <<>>
       THEN /\ bpc' = "done"
            /\ build_result' = Some(Ok(BuildResult(build_tag[1], FALSE)))
            /\ engine_images' = engine_images \cup {build_tag[1]}
            /\ UNCHANGED <<stream, consumed>>
       ELSE /\ consumed' = Append(consumed, Head(stream))
            /\ stream' = Tail(stream)
            /\ UNCHANGED engine_images
            /\ IF ItemFailure(Head(stream)) # None
               THEN /\ bpc' = "done"
                    /\ build_result' = Some(Err(ItemFailure(Head(stream))[1]))
               ELSE UNCHANGED <<bpc, build_result>>
    /\ UNCHANGED <<build_args, build_tag, submitted, images_at_call>>
    /\ UNCHANGED <<sessionVars, tagVars, netVars, ctrVars, nameVars, readyVars, hookVars, svcVars, staleVars, mainVars, cleanVars, cliVars>>

BuildNext == BuildCheckCache \/ BuildSubmit \/ BuildStreamNext

SpecBuild == BuildInit /\ [][BuildNext]_vars

BuildDone == bpc = "done"

\* An image with the tag computed for the text being built existed at the
\* call.
ImageExisted == build_tag[1] \in images_at_call

\* build returned Ok with cached = TRUE.
ReturnedCached == build_result[1].ok /\ build_result[1].value.cached

\* build returned the error of the image listing or of the packaging.
FailedBeforeSubmit ==
    ~build_result[1].ok /\ build_result[1].msg \in {ListFailed, ContextFailed}

\* C13 as stated: a build is submitted exactly when no_cache is set or no
\* image with the text's tag exists; cached = TRUE is returned exactly when
\* no build was submitted; under no_cache a build is submitted.
C13_SubmitIffForcedOrMissing ==
    BuildDone =>
        /\ submitted <=> (build_args[1].no_cache \/ ~ImageExisted)
        /\ ReturnedCached <=> ~submitted
        /\ build_args[1].no_cache => submitted

\* C13 amended: unless the image listing or the packaging of the build
\* context failed (then the error is returned and nothing is submitted), a
\* build is submitted exactly when no_cache is set or no image with the
\* text's tag exists; cached = TRUE is returned exactly when build returns a
\* result without having submitted a build; under no_cache the images are
\* not listed.
C13_SubmitUnlessFailed ==
    BuildDone =>
        /\ FailedBeforeSubmit => ~submitted
        /\ ~FailedBeforeSubmit =>
              (submitted <=> (build_args[1].no_cache \/ ~ImageExisted))
        /\ ReturnedCached <=> (build_result[1].ok /\ ~submitted)
        /\ build_args[1].no_cache => build_result[1] # Err(ListFailed)

C13_Witness ==
    /\ BuildDone /\ submitted
    /\ build_args[1].no_cache /\ ImageExisted
    /\ build_result[1].ok

\* C14: after a build was submitted, an error is returned exactly at the
\* first item with an error field or transport error, with that item's
\* message, and nothing is taken from the stream after it; {tag, cached =
\* FALSE} is returned only after the whole stream went by without one.
C14_FirstErrorEndsBuild ==
    (BuildDone /\ submitted) =>
        /\ \A i \in 1..(Len(consumed) - 1) : ItemFailure(consumed[i]) = None
        /\ build_result[1].ok =>
              /\ build_result[1].value = BuildResult(build_tag[1], FALSE)
              /\ stream = <<>>
              /\ \A i \in 1..Len(consumed) :
                    consumed[i].ok /\ consumed[i].error = None
        /\ ~build_result[1].ok =>
              /\ consumed # <<>>
              /\ LET last == consumed[Len(consumed)]
                 IN  IF last.ok
                     THEN /\ last.error # None
                          /\ build_result[1].msg
                                = <<"Docker build error", last.error[1]>>
                     ELSE build_result[1].msg
                                = <<"Docker build stream error", last.err>>

C14_Witness ==
    /\ BuildDone /\ submitted
    /\ ~build_result[1].ok
    /\ Len(consumed) = 2
    /\ consumed[2].ok
    /\ stream # <<>>
    /\ ~stream[1].ok

\* ========================================================= NetworkManager

MaxNetCalls == 3

\* Names are sequences of characters.
Foo == <<"f", "o", "o">>
FooBar == <<"f", "o", "o", "b", "a", "r">>
XFoo == <<"x", "f", "o", "o">>

\* Names of networks the engine may hold, and names the manager is asked for.
NetworkNames == {Foo, FooBar, XFoo}
AskedNames == {Foo, FooBar}

IsSubstring(a, b) ==
    \E i \in 1..(Len(b) - Len(a) + 1) : SubSeq(b, i, i + Len(a) - 1) = a

NetInit ==
    /\ engine_networks \in SUBSET NetworkNames
    /\ net_log = <<>>
    /\ SessionOff /\ TagIdle /\ BuildIdle /\ CtrIdle /\ NamesIdle /\ ReadyIdle /\ HooksIdle /\ ServicesIdle /\ StaleIdle /\ MainIdle /\ CleanIdle /\ CliIdle

\* The engine's list_networks under a name filter: partial matches.
list_networks(name) == {n \in engine_networks : IsSubstring(name, n)}

\* Any listed network counts as the one asked for.
AnyListed(listed, name) == listed # {}

\* networks.iter().any(|n| n.name.as_deref() == Some(name))
\* (networks.rs:58-60).
ExactlyListed(listed, name) == \E n \in listed : n = name

\* ensure_network (networks.rs:21-42) with network_exists (45-61).
NetEnsure(name) ==
    /\ Len(net_log) < MaxNetCalls
    /\ \E listOk \in BOOLEAN : \E createOk \in BOOLEAN :
        LET listed == list_networks(name)
            entry == [op |-> "ensure_network", name |-> name,
                      existed |-> name \in engine_networks,
                      listing |-> IF listOk THEN Some(listed) ELSE None]
        IN  IF ~listOk
            THEN /\ net_log' = Append(net_log,
                        entry @@ [create_called |-> FALSE,
                                  result |-> Err(<<"failed to list networks", "engine">>)])
                 /\ UNCHANGED engine_networks
            ELSE IF ExactlyListed(listed, name)
            THEN /\ net_log' = Append(net_log,
                        entry @@ [create_called |-> FALSE, result |-> Ok(name)])
                 /\ UNCHANGED engine_networks
            ELSE IF createOk
            THEN /\ net_log' = Append(net_log,
                        entry @@ [create_called |-> TRUE, result |-> Ok(name)])
                 /\ engine_networks' = engine_networks \cup {name}
            ELSE /\ net_log' = Append(net_log,
                        entry @@ [create_called |-> TRUE,
                                  result |-> Err(<<"failed to create network", "engine">>)])
                 /\ UNCHANGED engine_networks
    /\ UNCHANGED <<sessionVars, tagVars, buildVars, ctrVars, nameVars, readyVars, hookVars, svcVars, staleVars, mainVars, cleanVars, cliVars>>

\* What the engine may answer to remove_network.
RemoveOutcomes(name) ==
    IF name \in engine_networks
    THEN {"removed", "active_endpoints", "engine_error"}
    ELSE {"not_found", "engine_error"}

\* A remove_network that returns the engine's error.
RemoveResultPropagated(outcome) ==
    IF outcome = "removed" THEN Ok(<<>>)
    ELSE Err(<<"failed to remove network", outcome>>)

\* The match in remove_network (networks.rs:99-107): both arms log, then
\* Ok(()).
RemoveResult(outcome) == Ok(<<>>)

\* remove_network (networks.rs:98-108).
NetRemove(name) ==
    /\ Len(net_log) < MaxNetCalls
    /\ \E outcome \in RemoveOutcomes(name) :
        /\ engine_networks' = IF outcome = "removed"
                              THEN engine_networks \ {name}
                              ELSE engine_networks
        /\ net_log' = Append(net_log,
                [op |-> "remove_network", name |-> name, outcome |-> outcome,
                 result |-> RemoveResult(outcome)])
    /\ UNCHANGED <<sessionVars, tagVars, buildVars, ctrVars, nameVars, readyVars, hookVars, svcVars, staleVars, mainVars, cleanVars, cliVars>>

NetNext ==
    \/ \E name \in AskedNames : NetEnsure(name)
    \/ \E name \in AskedNames : NetRemove(name)

SpecNet == NetInit /\ [][NetNext]_vars

EnsureCalls == {i \in 1..Len(net_log) : net_log[i].op = "ensure_network"}
RemoveCalls == {i \in 1..Len(net_log) : net_log[i].op = "remove_network"}

\* The network of call i's name was removed by a call between i and j.
RemovedBetween(i, j) ==
    \E k \in RemoveCalls :
        /\ i < k /\ k < j
        /\ net_log[k].name = net_log[i].name
        /\ net_log[k].outcome = "removed"

\* C16 as stated: ensure_network issues a create call exactly when no
\* existing network has exactly the name asked for.
C16_CreateIffNoExactName ==
    \A i \in EnsureCalls : net_log[i].create_called <=> ~net_log[i].existed

\* C16 amended: when the listing of the networks fails ensure_network
\* returns the error and issues no create call; otherwise it issues one
\* exactly when no existing network has exactly the name asked for (a name
\* that contains it does not count).  A network that exists is never created
\* again: after an ensure_network that succeeded, a later one for the same
\* name creates nothing unless the network was removed in between.
C16_CreateIffNoExactNameListed ==
    /\ \A i \in EnsureCalls :
        /\ net_log[i].listing = None =>
              ~net_log[i].create_called /\ ~net_log[i].result.ok
        /\ net_log[i].listing # None =>
              (net_log[i].create_called <=> ~net_log[i].existed)
        /\ net_log[i].create_called => ~net_log[i].existed
    /\ \A i \in EnsureCalls : \A j \in EnsureCalls :
        (/\ i < j
         /\ net_log[i].name = net_log[j].name
         /\ net_log[i].result.ok
         /\ ~RemovedBetween(i, j)) => ~net_log[j].create_called

C16_Witness ==
    /\ Len(net_log) >= 2
    /\ net_log[1].op = "ensure_network" /\ net_log[1].name = Foo
    /\ net_log[1].listing = Some({FooBar, XFoo})
    /\ net_log[1].create_called /\ net_log[1].result.ok
    /\ net_log[2].op = "ensure_network" /\ net_log[2].name = Foo
    /\ ~net_log[2].create_called

\* C17: remove_network returns Ok whatever the engine answers.
C17_RemoveNetworkAlwaysOk ==
    \A i \in RemoveCalls : net_log[i].result = Ok(<<>>)

C17_Witness ==
    \E i \in RemoveCalls : \E j \in RemoveCalls :
        /\ net_log[i].outcome = "active_endpoints"
        /\ net_log[j].outcome = "not_found"
        /\ net_log[i].result.ok /\ net_log[j].result.ok

\* ================================================= cleanup_existing

MaxCtrCalls == 2

Bar == <<"b", "a", "r">>

\* format!("/{name}"): the engine reports container names with a leading
\* slash.
Slashed(name) == <<"/">> \o name

\* Containers the engine may hold; container names are unique in an engine.
Container(id, name) == [id |-> id, names |-> <<Slashed(name)>>]

ContainerUniverse ==
    {Container("c1", Foo), Container("c2", FooBar), Container("c3", XFoo)}

CleanupNames == {Foo, Bar}

CtrInit ==
    /\ engine_containers \in SUBSET ContainerUniverse
    /\ ctr_log = <<>>
    /\ create_log = <<>>
    /\ SessionOff /\ TagIdle /\ BuildIdle /\ NetIdle /\ NamesIdle /\ ReadyIdle /\ HooksIdle /\ ServicesIdle /\ StaleIdle /\ MainIdle /\ CleanIdle /\ CliIdle

\* The engine's list_containers (all: true) under a name filter: partial
\* matches.
list_containers(name) ==
    {c \in engine_containers : \E n \in Range(c.names) : IsSubstring(name, n)}

\* The orders in which the engine may report a set of containers.
Orderings(S) ==
    {f \in [1..Cardinality(S) -> S] :
        \A i \in 1..Cardinality(S) : \A j \in 1..Cardinality(S) :
            f[i] = f[j] => i = j}

\* A container counts when one of its names begins with the name sought.
HasNameStarting(c, exact_name) ==
    \E n \in Range(c.names) : IsPrefix(exact_name, n)

\* names.iter().any(|n| n == &exact_name) (containers.rs:57-58).
HasName(c, exact_name) == \E n \in Range(c.names) : n = exact_name

\* The loop of cleanup_existing over the listing (containers.rs:56-79):
\* each match is stopped (result dropped) and force-removed; a failed remove
\* returns its error at once.  failing holds the ids whose remove fails.
RECURSIVE CleanupLoop(_, _, _)
CleanupLoop(listing, exact_name, failing) ==
    IF listing = <<>> THEN [calls |-> <<>>, removed |-> {}, result |-> Ok(<<>>)]
    ELSE LET c == Head(listing)
             own == <<[op |-> "stop_container", id |-> c.id],
                      [op |-> "remove_container", id |-> c.id]>>
             rest == CleanupLoop(Tail(listing), exact_name, failing)
         IN  IF ~HasName(c, exact_name) THEN rest
             ELSE IF c.id \in failing
             THEN [calls |-> own, removed |-> {},
                   result |-> Err(<<"failed to remove existing container", c.id>>)]
             ELSE [calls |-> own \o rest.calls,
                   removed |-> {c.id} \cup rest.removed,
                   result |-> rest.result]

\* cleanup_existing (containers.rs:38-82).
CleanupExisting(name) ==
    /\ Len(ctr_log) < MaxCtrCalls
    /\ \E listOk \in BOOLEAN :
        IF ~listOk
        THEN /\ ctr_log' = Append(ctr_log,
                    [name |-> name, before |-> engine_containers,
                     listing |-> None, calls |-> <<>>,
                     after |-> engine_containers,
                     result |-> Err(<<"failed to list containers", "engine">>)])
             /\ UNCHANGED engine_containers
        ELSE \E listing \in Orderings(list_containers(name)) :
             \E failing \in SUBSET {c.id : c \in ContainerUniverse} :
                LET out == CleanupLoop(listing, Slashed(name), failing)
                    left == {c \in engine_containers : c.id \notin out.removed}
                IN  /\ engine_containers' = left
                    /\ ctr_log' = Append(ctr_log,
                            [name |-> name, before |-> engine_containers,
                             listing |-> Some(Range(listing)),
                             calls |-> out.calls, after |-> left,
                             result |-> out.result])
    /\ UNCHANGED <<create_log, sessionVars, tagVars, buildVars, netVars, nameVars, readyVars, hookVars, svcVars, staleVars, mainVars, cleanVars, cliVars>>

\* Ids the engine gives to the containers it creates, in order.
NewIds == <<"n1", "n2", "n3", "n4">>

\* What cleanup_existing may do on the engine as it is: the ctr_log entry
\* of each listing failure, listing order and set of failing removes.
CleanupOutcomes(name) ==
    {[name |-> name, before |-> engine_containers, listing |-> None,
      calls |-> <<>>, after |-> engine_containers,
      result |-> Err(<<"failed to list containers", "engine">>)]}
    \cup
    UNION {{LET out == CleanupLoop(listing, Slashed(name), failing)
            IN  [name |-> name, before |-> engine_containers,
                 listing |-> Some(Range(listing)), calls |-> out.calls,
                 after |-> {c \in engine_containers : c.id \notin out.removed},
                 result |-> out.result] :
            failing \in SUBSET {c.id : c \in Range(listing)}} :
           listing \in Orderings(list_containers(name))}

\* create_container under a name, then start_container
\* (containers.rs:194-211, 375-392) on the engine `engine`: the engine
\* refuses a name in use; a container that was created stays when its start
\* fails.  Gives the engine afterwards and the Result.
CreateThenStart(engine, name, createOk, startOk) ==
    LET id == NewIds[Len(create_log) + 1]
    IN  IF \E c \in engine : HasName(c, Slashed(name))
        THEN [engine |-> engine, result |-> Err(<<"failed to create container", "conflict">>)]
        ELSE IF ~createOk
        THEN [engine |-> engine, result |-> Err(<<"failed to create container", "engine">>)]
        ELSE IF ~startOk
        THEN [engine |-> engine \cup {Container(id, name)},
              result |-> Err(<<"failed to start container", "engine">>)]
        ELSE [engine |-> engine \cup {Container(id, name)}, result |-> Ok(id)]

\* A container of the session comes to be: start_service
\* (containers.rs:324-393) for a service, or cleanup_existing(...)? followed
\* by create_and_start (main.rs:618-637) for the dev container.  Both run
\* cleanup_existing on the name, return its error, and else create and
\* start a container of that name.
CreateNamed(kind, name) ==
    /\ Len(ctr_log) < MaxCtrCalls
    /\ \E cleaned \in CleanupOutcomes(name) :
       \E createOk \in BOOLEAN : \E startOk \in BOOLEAN :
        /\ ctr_log' = Append(ctr_log, cleaned)
        /\ IF ~Try(cleaned.result.ok)
           THEN /\ engine_containers' = cleaned.after
                /\ create_log' = Append(create_log,
                        [kind |-> kind, name |-> name,
                         before |-> engine_containers, calls |-> cleaned.calls,
                         at_create |-> None, result |-> cleaned.result])
           ELSE LET made == CreateThenStart(cleaned.after, name, createOk, startOk)
                IN  /\ engine_containers' = made.engine
                    /\ create_log' = Append(create_log,
                            [kind |-> kind, name |-> name,
                             before |-> engine_containers,
                             calls |-> cleaned.calls,
                             at_create |-> Some(cleaned.after),
                             result |-> made.result])
    /\ UNCHANGED <<sessionVars, tagVars, buildVars, netVars, nameVars, readyVars, hookVars, svcVars, staleVars, mainVars, cleanVars, cliVars>>

CtrNext ==
    \/ \E name \in CleanupNames : CleanupExisting(name)
    \/ \E name \in CleanupNames : CreateNamed("service", name)
    \/ \E name \in CleanupNames : CreateNamed("dev", name)

SpecCtr == CtrInit /\ [][CtrNext]_vars

\* Ids named by the calls of one kind in a log entry.
CalledOn(e, op) == {c.id : c \in {x \in Range(e.calls) : x.op = op}}

\* Listed containers that carry exactly the name "/" + e.name.
ExactMatches(e) ==
    {c \in e.listing[1] :
        \E i \in 1..Len(c.names) :
            /\ Len(c.names[i]) = Len(e.name) + 1
            /\ c.names[i][1] = "/"
            /\ \A k \in 1..Len(e.name) : c.names[i][k + 1] = e.name[k]}

\* C18: cleanup_existing stops and force-removes exactly the listed
\* containers named "/" + name; a container whose name only contains or
\* extends it is left alone; with no match it returns Ok and makes no stop
\* or remove call.
C18_OnlyExactNameRemoved ==
    \A i \in 1..Len(ctr_log) :
        LET e == ctr_log[i]
        IN  IF e.listing = None THEN e.calls = <<>> /\ e.after = e.before
            ELSE /\ CalledOn(e, "stop_container") = {c.id : c \in ExactMatches(e)}
                 /\ CalledOn(e, "remove_container") = {c.id : c \in ExactMatches(e)}
                 /\ e.before \ e.after \subseteq ExactMatches(e)
                 /\ ExactMatches(e) = {} => (e.calls = <<>> /\ e.result = Ok(<<>>))

C18_Witness ==
    \E i \in 1..Len(ctr_log) : \E j \in 1..Len(ctr_log) :
        /\ ctr_log[i].name = Foo
        /\ ctr_log[i].listing = Some(ContainerUniverse)
        /\ ctr_log[i].after = {Container("c2", FooBar), Container("c3", XFoo)}
        /\ ctr_log[j].name = Bar
        /\ ctr_log[j].listing = Some({Container("c2", FooBar)})
        /\ ctr_log[j].result.ok

\* Containers of a set that carry exactly the name "/" + name.
NamedExactly(S, name) ==
    {c \in S :
        \E i \in 1..Len(c.names) :
            /\ Len(c.names[i]) = Len(name) + 1
            /\ c.names[i][1] = "/"
            /\ \A k \in 1..Len(name) : c.names[i][k + 1] = name[k]}

\* C21: when a create call is made for a dev or service container named N,
\* every container that was named exactly N has been stopped and removed
\* and is gone from the engine, and the engine never holds two containers
\* of one name.
C21_NoSameNameAtCreate ==
    /\ \A i \in 1..Len(create_log) :
        LET e == create_log[i]
        IN  e.at_create # None =>
              /\ NamedExactly(e.at_create[1], e.name) = {}
              /\ \A c \in NamedExactly(e.before, e.name) :
                    /\ [op |-> "stop_container", id |-> c.id] \in Range(e.calls)
                    /\ [op |-> "remove_container", id |-> c.id] \in Range(e.calls)
    /\ \A c \in engine_containers : \A d \in engine_containers :
        (c # d) => (Range(c.names) \cap Range(d.names) = {})

C21_Witness ==
    /\ Len(create_log) = 2
    /\ create_log[1].kind = "service" /\ create_log[1].name = Foo
    /\ Container("c1", Foo) \in create_log[1].before
    /\ create_log[1].result = Ok("n1")
    /\ create_log[2].kind = "dev" /\ create_log[2].name = Foo
    /\ Container("n1", Foo) \in create_log[2].before
    /\ create_log[2].result = Ok("n2")

\* ==================================================== matches_stale_prefix

MaxNameLen == 3
MaxProjectLen == 3

SeqsUpTo(A, n) == UNION {[1..k -> A] : k \in 0..n}

starts_with(s, t) == IsPrefix(t, s)

FooDashX == <<"/", "f", "o", "o", "-", "x">>
SlashFooBar == <<"/", "f", "o", "o", "b", "a", "r">>

\* "bubble-boy-" (containers.rs:468, services/mod.rs:39) and "bubble-bot-"
\* (networks.rs:123).
BubbleBoy == <<"b", "u", "b", "b", "l", "e", "-", "b", "o", "y", "-">>
BubbleBot == <<"b", "u", "b", "b", "l", "e", "-", "b", "o", "t", "-">>

\* Service::name of the three services (services/mod.rs:44-66).
ServiceNames ==
    {<<"m", "y", "s", "q", "l">>, <<"r", "e", "d", "i", "s">>,
     <<"p", "o", "s", "t", "g", "r", "e", "s">>}

\* The name used when the working directory has no base name
\* (containers.rs:469, networks.rs:124, main.rs:133).
FallbackProject == <<"p", "r", "o", "j", "e", "c", "t">>

\* Directory names a project may have, and the fallback.
ProjectNames ==
    (SeqsUpTo({"a", "-"}, MaxProjectLen) \ {<<>>}) \cup {FallbackProject}

\* default_container_name (containers.rs:464-470) for a directory name, and
\* the same as the engine reports it.
default_container_name(project) == BubbleBoy \o project
DevContainerName(project) == Slashed(default_container_name(project))

\* The prefix container_name gives its result in each service: mysql.rs:70
\* writes "bubble-bot-", redis.rs:45 and postgres.rs:63 "bubble-boy-" as
\* the trait's default does (services/mod.rs:39).
ServiceNamePrefix(name) ==
    IF name = <<"m", "y", "s", "q", "l">> THEN BubbleBot ELSE BubbleBoy

\* Service::container_name of the three services (mysql.rs:69-71,
\* redis.rs:44-46, postgres.rs:62-64), as the engine reports it.
ServiceContainerName(project, name) ==
    Slashed(ServiceNamePrefix(name) \o project \o <<"-">> \o name)

\* default_network_name (networks.rs:119-125).
DefaultNetworkName(project) == BubbleBot \o project

\* The prefixes a sweep for a project is given (containers.rs:84,
\* networks.rs:63).
ContainerPrefix(project) == default_container_name(project)
NetworkPrefix(project) == BubbleBot \o project

\* A name and a prefix to match, with no project behind them.
RawCase(kind, name, prefix) ==
    [kind |-> kind, name |-> name, prefix |-> prefix, resource |-> "none",
     service |-> <<>>, p |-> <<>>, q |-> <<>>]

\* A resource of project q met by the sweep for project p.
ProjectCases(p, q) ==
    {[kind |-> "container", name |-> DevContainerName(q),
      prefix |-> ContainerPrefix(p), resource |-> "dev", service |-> <<>>,
      p |-> p, q |-> q],
     [kind |-> "network", name |-> DefaultNetworkName(q),
      prefix |-> NetworkPrefix(p), resource |-> "network", service |-> <<>>,
      p |-> p, q |-> q]}
    \cup {[kind |-> "container", name |-> ServiceContainerName(q, sv),
           prefix |-> ContainerPrefix(p), resource |-> "service",
           service |-> sv, p |-> p, q |-> q] : sv \in ServiceNames}

MatchCases ==
    {RawCase(k, n, pre) : k \in {"container", "network"},
                          n \in SeqsUpTo({"/", "a", "-"}, MaxNameLen),
                          pre \in SeqsUpTo({"a", "-"}, MaxNameLen - 1)}
    \cup {RawCase("container", n, Foo) : n \in {FooDashX, SlashFooBar}}
    \cup UNION {ProjectCases(p, q) : p \in ProjectNames, q \in ProjectNames}

NamesInit ==
    /\ match_in \in {Some(c) : c \in MatchCases}
    /\ match_out = None
    /\ SessionOff /\ TagIdle /\ BuildIdle /\ NetIdle /\ CtrIdle /\ ReadyIdle /\ HooksIdle /\ ServicesIdle /\ StaleIdle /\ MainIdle /\ CleanIdle /\ CliIdle

\* A matcher that takes any name beginning with the prefix.
container_matches_any_extension(container_name, prefix) ==
    starts_with(container_name, <<"/">> \o prefix)

\* matches_stale_prefix of containers.rs:456-460.
container_matches_stale_prefix(container_name, prefix) ==
    LET prefix_with_slash == <<"/">> \o prefix
    IN  \/ container_name = prefix_with_slash
        \/ starts_with(container_name, prefix_with_slash \o <<"-">>)

\* matches_stale_prefix of networks.rs:113-115.
network_matches_stale_prefix(network_name, prefix) ==
    \/ network_name = prefix
    \/ starts_with(network_name, prefix \o <<"-">>)

\* One call of the matcher of the case's kind.
ApplyMatch ==
    /\ match_in # None /\ match_out = None
    /\ match_out' = Some(
          IF match_in[1].kind = "container"
          THEN container_matches_stale_prefix(match_in[1].name, match_in[1].prefix)
          ELSE network_matches_stale_prefix(match_in[1].name, match_in[1].prefix))
    /\ UNCHANGED <<match_in, sessionVars, tagVars, buildVars, netVars, ctrVars, readyVars, hookVars, svcVars, staleVars, mainVars, cleanVars, cliVars>>

NamesNext == ApplyMatch

SpecNames == NamesInit /\ [][NamesNext]_vars

\* The rule as the specification words it: n is lead + p, or n is longer
\* and reads lead + p and then a dash; lead is "/" for containers, nothing
\* for networks.
RuleHolds(kind, n, p) ==
    LET lead == IF kind = "container" THEN 1 ELSE 0
        full == lead + Len(p)
        Reads == /\ Len(n) >= full
                 /\ lead = 1 => n[1] = "/"
                 /\ \A i \in 1..Len(p) : n[lead + i] = p[i]
    IN  \/ Reads /\ Len(n) = full
        \/ Reads /\ Len(n) > full /\ n[full + 1] = "-"

\* C19: matches_stale_prefix(n, p) is true exactly when n is "/" + p or
\* begins with "/" + p + "-" (for networks without the slash); "/foo-x"
\* matches foo and "/foobar" does not.
C19_MatchRule ==
    match_out # None =>
        /\ match_out[1] <=>
              RuleHolds(match_in[1].kind, match_in[1].name, match_in[1].prefix)
        /\ match_in[1] = RawCase("container", FooDashX, Foo) => match_out[1]
        /\ match_in[1] = RawCase("container", SlashFooBar, Foo) => ~match_out[1]

C19_Witness ==
    /\ match_in = Some(RawCase("container", FooDashX, Foo))
    /\ match_out = Some(TRUE)

\* C20: for distinct projects p and q, no dev-container, service-container
\* or network name of q matches the prefix of p.
C20_OtherProjectNeverMatches ==
    (/\ match_out # None
     /\ match_in[1].resource # "none"
     /\ match_in[1].p # match_in[1].q) => ~match_out[1]

\* C27: for every working directory the default network name is the
\* default container name (seen on the network names the matcher was
\* run on).
C27_NetworkNameIsContainerName ==
    (match_out # None /\ match_in[1].resource = "network") =>
        match_in[1].name = default_container_name(match_in[1].q)

\* C28: the container name of every service of a project is the default
\* dev container name of the project, a dash and the service's short name,
\* and the matcher given the project's dev container name as prefix takes
\* it.
C28_ServiceNameExtendsDevName ==
    (match_out # None /\ match_in[1].resource = "service") =>
        /\ match_in[1].name =
              DevContainerName(match_in[1].q) \o <<"-">> \o match_in[1].service
        /\ match_in[1].p = match_in[1].q => match_out[1]

\* ========================================================= wait_for_ready
\* ContainerManager::wait_for_ready (containers.rs:397-450).  The function
\* is synchronous: it runs `docker exec <id> <readiness_cmd>` with
\* std::process::Command and sleeps with std::thread::sleep, so nothing else
\* of the session runs between its steps.  One action is one probe, one
\* sleep, or the final bail!.

MaxRetries == 3

\* Service::name of the services a probe is run for.
ReadyServices == {"mysql", "redis", "postgres"}

\* What Command::status gives for a probe (containers.rs:416-420): the
\* command exited with 0, exited with something else, or was not spawned.
ProbeOutcomes == {"success", "nonzero", "spawn_error"}

\* interval_secs the caller may pass; start_services passes 2 (main.rs:283).
Intervals == {1, 2}

ReadyArgs ==
    [service : ReadyServices, max_retries : 0..MaxRetries,
     interval_secs : Intervals]

\* A test that takes every probe that could be spawned for a success.
ProbeSpawned(outcome) == outcome # "spawn_error"

\* `Ok(s) if s.success()` (containers.rs:423).
ProbeSucceeded(outcome) == outcome = "success"

\* `if attempt < max_retries` (containers.rs:432).
SleepsAfterEvery(a, max_retries) == TRUE
SleepsAfter(a, max_retries) == a < max_retries

\* bail!("{} service did not become ready after {} attempts", ..)
\* (containers.rs:445-449).
NotReady(service, max_retries) ==
    Err(<<"service did not become ready", <<service, max_retries>>>>)

ReadyInit ==
    /\ ready_args \in {Some(a) : a \in ReadyArgs}
    /\ rpc = "loop"
    /\ attempt = 1
    /\ ready_log = <<>>
    /\ ready_result = None
    /\ SessionOff /\ TagIdle /\ BuildIdle /\ NetIdle /\ CtrIdle /\ NamesIdle /\ HooksIdle /\ ServicesIdle /\ StaleIdle /\ MainIdle /\ CleanIdle /\ CliIdle

\* One pass of the loop body up to the sleep (containers.rs:415-443).
ReadyProbe ==
    /\ rpc = "loop"
    /\ attempt <= ready_args[1].max_retries
    /\ \E outcome \in ProbeOutcomes :
        /\ ready_log' = Append(ready_log, [ev |-> "probe", attempt |-> attempt,
                                           outcome |-> outcome])
        /\ IF ProbeSucceeded(outcome)
           THEN /\ ready_result' = Some(Ok("unit"))
                /\ rpc' = "done"
                /\ UNCHANGED attempt
           ELSE IF SleepsAfter(attempt, ready_args[1].max_retries)
           THEN /\ rpc' = "sleep"
                /\ UNCHANGED <<attempt, ready_result>>
           ELSE /\ attempt' = attempt + 1
                /\ UNCHANGED <<rpc, ready_result>>
    /\ UNCHANGED <<ready_args, sessionVars, tagVars, buildVars, netVars, ctrVars, nameVars, hookVars, svcVars, staleVars, mainVars, cleanVars, cliVars>>

\* std::thread::sleep(Duration::from_secs(interval_secs))
\* (containers.rs:439), then the next pass.
ReadySleep ==
    /\ rpc = "sleep"
    /\ ready_log' = Append(ready_log, [ev |-> "sleep", attempt |-> attempt,
                                       secs |-> ready_args[1].interval_secs])
    /\ attempt' = attempt + 1
    /\ rpc' = "loop"
    /\ UNCHANGED <<ready_args, ready_result, sessionVars, tagVars, buildVars, netVars, ctrVars, nameVars, hookVars, svcVars, staleVars, mainVars, cleanVars, cliVars>>

\* The range 1..=max_retries is exhausted (containers.rs:445-449).
ReadyGiveUp ==
    /\ rpc = "loop"
    /\ attempt > ready_args[1].max_retries
    /\ ready_result' = Some(NotReady(ready_args[1].service,
                                     ready_args[1].max_retries))
    /\ rpc' = "done"
    /\ UNCHANGED <<ready_args, attempt, ready_log, sessionVars, tagVars, buildVars, netVars, ctrVars, nameVars, hookVars, svcVars, staleVars, mainVars, cleanVars, cliVars>>

ReadyNext == ReadyProbe \/ ReadySleep \/ ReadyGiveUp

SpecReady == ReadyInit /\ [][ReadyNext]_vars

Probes == SelectSeq(ready_log, LAMBDA e : e.ev = "probe")
Sleeps == SelectSeq(ready_log, LAMBDA e : e.ev = "sleep")

\* Every probe executed so far failed.
NoProbeSucceeded == \A i \in 1..Len(Probes) : ~ProbeSucceeded(Probes[i].outcome)

\* C22: when wait_for_ready has returned and every probe failed, it ran
\* exactly max_retries probes (attempts 1..max_retries in order), slept
\* interval_secs exactly max_retries - 1 times, each sleep between two
\* probes and none after the last (no probe and no sleep at all when
\* max_retries is 0), and returned the error that names the service and
\* max_retries.
C22_AlwaysFailingProbe ==
    (rpc = "done" /\ NoProbeSucceeded) =>
        LET n == ready_args[1].max_retries IN
        /\ Len(Probes) = n
        /\ \A i \in 1..n : Probes[i].attempt = i
        /\ Len(Sleeps) = IF n = 0 THEN 0 ELSE n - 1
        /\ \A i \in 1..Len(Sleeps) : Sleeps[i].secs = ready_args[1].interval_secs
        /\ \A i \in 1..Len(ready_log) :
              ready_log[i].ev = (IF i % 2 = 1 THEN "probe" ELSE "sleep")
        /\ Len(ready_log) > 0 => ready_log[Len(ready_log)].ev = "probe"
        /\ ready_result = Some(NotReady(ready_args[1].service, n))

C22_Witness ==
    /\ rpc = "done"
    /\ ready_args[1].max_retries = 2
    /\ NoProbeSucceeded
    /\ Len(Probes) = 2
    /\ Len(Sleeps) = 1
    /\ ~ready_result[1].ok

\* ============================================================== HookRunner
\* HookRunner::run_post_start, run_pre_stop and run_hook (hooks.rs:23-70),
\* called in that order on one runner (main.rs:643-653).  Each command is
\* run with `docker exec <id> sh -c <cmd>` through std::process::Command, so
\* one action is one command.

MaxHooks == 2

HookCommands == {"a", "b"}

\* HookConfig (config.rs:86-89); a list may name a command twice.
HookConfigs ==
    [post_start : SeqsUpTo(HookCommands, MaxHooks),
     pre_stop : SeqsUpTo(HookCommands, MaxHooks)]

\* What Command::status gives for a hook (hooks.rs:58-69).
HookOutcomes == {"success", "nonzero", "spawn_error"}

\* The level run_hook logs the outcome at (hooks.rs:59-68).
HookLevel(outcome) == IF outcome = "success" THEN "info" ELSE "warn"

\* Whether run_hook makes the phase stop: the match of hooks.rs:58-69 has
\* no return and no `?`, and run_hook returns ().
HookAbortsOnFailure(outcome) == outcome # "success"
HookAborts(outcome) == FALSE

HooksInit ==
    /\ hook_cfg \in {Some(c) : c \in HookConfigs}
    /\ hook_phase = "off"
    /\ hook_idx = 0
    /\ hook_log = <<>>
    /\ SessionOff /\ TagIdle /\ BuildIdle /\ NetIdle /\ CtrIdle /\ NamesIdle /\ ReadyIdle /\ ServicesIdle /\ StaleIdle /\ MainIdle /\ CleanIdle /\ CliIdle

\* The list a phase runs (hooks.rs:28, 40).
HookList(phase) ==
    IF phase = "post_start" THEN hook_cfg[1].post_start ELSE hook_cfg[1].pre_stop

\* Entry of run_post_start / run_pre_stop: the early return on an empty
\* list (hooks.rs:24-26, 36-38).
HookEnter(from, phase, returned) ==
    /\ hook_phase = from
    /\ IF HookList(phase) = <<>>
       THEN hook_phase' = returned /\ hook_idx' = 0
       ELSE hook_phase' = phase /\ hook_idx' = 1
    /\ UNCHANGED <<hook_cfg, hook_log, sessionVars, tagVars, buildVars, netVars, ctrVars, nameVars, readyVars, svcVars, staleVars, mainVars, cleanVars, cliVars>>

RunPostStart == HookEnter("off", "post_start", "post_returned")
RunPreStop == HookEnter("post_returned", "pre_stop", "pre_returned")

\* One pass of the for loop: run_hook on the next command (hooks.rs:28-30,
\* 40-42, 48-70).
RunHook ==
    /\ hook_phase \in {"post_start", "pre_stop"}
    /\ \E outcome \in HookOutcomes :
        /\ hook_log' = Append(hook_log,
               [phase |-> hook_phase, cmd |-> HookList(hook_phase)[hook_idx],
                outcome |-> outcome, level |-> HookLevel(outcome)])
        /\ IF HookAborts(outcome)
           THEN hook_phase' = "failed" /\ UNCHANGED hook_idx
           ELSE IF hook_idx = Len(HookList(hook_phase))
           THEN /\ hook_phase' = (IF hook_phase = "post_start"
                                  THEN "post_returned" ELSE "pre_returned")
                /\ hook_idx' = 0
           ELSE hook_idx' = hook_idx + 1 /\ UNCHANGED hook_phase
    /\ UNCHANGED <<hook_cfg, sessionVars, tagVars, buildVars, netVars, ctrVars, nameVars, readyVars, svcVars, staleVars, mainVars, cleanVars, cliVars>>

HooksNext == RunPostStart \/ RunPreStop \/ RunHook

SpecHooks == HooksInit /\ [][HooksNext]_vars

\* The commands attempted in a phase so far, in the order attempted.
HooksAttempted(phase) ==
    LET es == SelectSeq(hook_log, LAMBDA e : e.phase = phase)
    IN  [i \in 1..Len(es) |-> es[i].cmd]

\* C23: a phase never ends in an error; the commands it has attempted are
\* always the first ones of its configured list, in the declared order and
\* once each, whatever their outcomes; and when the phase has returned it
\* has attempted the whole list.
C23_EveryHookAttempted ==
    hook_cfg # None =>
        /\ hook_phase # "failed"
        /\ IsPrefix(HooksAttempted("post_start"), hook_cfg[1].post_start)
        /\ IsPrefix(HooksAttempted("pre_stop"), hook_cfg[1].pre_stop)
        /\ hook_phase \in {"post_returned", "pre_stop", "pre_returned"}
              => HooksAttempted("post_start") = hook_cfg[1].post_start
        /\ hook_phase = "pre_returned"
              => HooksAttempted("pre_stop") = hook_cfg[1].pre_stop

C23_Witness ==
    /\ hook_phase = "pre_returned"
    /\ Len(hook_log) = 4
    /\ hook_log[1].outcome = "nonzero"
    /\ hook_log[2].outcome = "success"
    /\ hook_log[3].outcome = "spawn_error"
    /\ hook_log[4].phase = "pre_stop"

\* ================================================================ services
\* collect_services and collect_service_env_vars (services/mod.rs:44-75)
\* with the dev_env of the three services (mysql.rs:45-53, redis.rs:26-31,
\* postgres.rs:40-48).  Environment entries are "KEY=VALUE" strings, kept
\* here as sequences of characters so that keys can be read off them.

\* MysqlConfig::default and PostgresConfig::default (config.rs:51-80), and
\* one configuration of each that a user wrote.
MysqlDefault ==
    [version |-> "8.0", database |-> <<"a", "p", "p">>, username |-> <<"r", "o", "o", "t">>,
     password |-> <<"p", "a", "s", "s", "w", "o", "r", "d">>]
MysqlCustom ==
    [version |-> "5.7", database |-> <<"d">>, username |-> <<"u">>,
     password |-> <<"p", "=", "q">>]
PostgresDefault ==
    [version |-> "16", database |-> <<"a", "p", "p">>, username |-> <<"p", "o", "s", "t", "g", "r", "e", "s">>,
     password |-> <<"p", "a", "s", "s", "w", "o", "r", "d">>]
PostgresCustom ==
    [version |-> "15", database |-> <<>>, username |-> <<"u">>,
     password |-> <<"d">>]

\* ServiceConfig (config.rs:36-40) together with the project name the
\* caller passes (main.rs:592-593).
ServiceConfigs ==
    [project : {"test", "other"},
     mysql : {None, Some(MysqlDefault), Some(MysqlCustom)},
     redis : {None, Some(TRUE), Some(FALSE)},
     postgres : {None, Some(PostgresDefault), Some(PostgresCustom)}]

\* The three tests of collect_services (services/mod.rs:47, 54, 58).
Enabled(config) ==
    [mysql |-> config.mysql # None,
     redis |-> config.redis = Some(TRUE),
     postgres |-> config.postgres # None]

\* MysqlService::new, RedisService::new, PostgresService::new
\* (mysql.rs:10-15, redis.rs:8-10, postgres.rs:10-15).
NewService(name, config) ==
    [name |-> name,
     config |-> IF name = "mysql" THEN config.mysql
                ELSE IF name = "postgres" THEN config.postgres ELSE None,
     project_name |-> config.project]

\* collect_services with the services it builds (services/mod.rs:44-66).
CollectedServices(config) ==
    LET names == collect_services(Enabled(config))
    IN  [i \in 1..Len(names) |-> NewService(names[i], config)]

\* MysqlService::dev_env (mysql.rs:45-53).
MysqlDevEnv(cfg) ==
    << <<"D", "B", "_", "H", "O", "S", "T", "=", "m", "y", "s", "q", "l">>,
       <<"D", "B", "_", "P", "O", "R", "T", "=", "3", "3", "0", "6">>,
       <<"D", "B", "_", "D", "A", "T", "A", "B", "A", "S", "E", "=">> \o cfg.database,
       <<"D", "B", "_", "U", "S", "E", "R", "N", "A", "M", "E", "=">> \o cfg.username,
       <<"D", "B", "_", "P", "A", "S", "S", "W", "O", "R", "D", "=">> \o cfg.password >>

\* RedisService::dev_env (redis.rs:26-31).
RedisDevEnv ==
    << <<"R", "E", "D", "I", "S", "_", "H", "O", "S", "T", "=", "r", "e", "d", "i", "s">>,
       <<"R", "E", "D", "I", "S", "_", "P", "O", "R", "T", "=", "6", "3", "7", "9">> >>

\* PostgresService::container_env (postgres.rs:32-38) and
\* PostgresService::dev_env (postgres.rs:40-48).
PostgresContainerEnv(cfg) ==
    << <<"P", "O", "S", "T", "G", "R", "E", "S", "_", "U", "S", "E", "R", "=">> \o cfg.username,
       <<"P", "O", "S", "T", "G", "R", "E", "S", "_", "P", "A", "S", "S", "W", "O", "R", "D", "=">> \o cfg.password,
       <<"P", "O", "S", "T", "G", "R", "E", "S", "_", "D", "B", "=">> \o cfg.database >>
PostgresDevEnv(cfg) ==
    << <<"D", "B", "_", "H", "O", "S", "T", "=", "p", "o", "s", "t", "g", "r", "e", "s">>,
       <<"D", "B", "_", "P", "O", "R", "T", "=", "5", "4", "3", "2">>,
       <<"D", "B", "_", "D", "A", "T", "A", "B", "A", "S", "E", "=">> \o cfg.database,
       <<"D", "B", "_", "U", "S", "E", "R", "N", "A", "M", "E", "=">> \o cfg.username,
       <<"D", "B", "_", "P", "A", "S", "S", "W", "O", "R", "D", "=">> \o cfg.password >>

\* Service::dev_env, dispatched on the variant (services/mod.rs:27).
dev_env(service) ==
    IF service.name = "mysql" THEN MysqlDevEnv(service.config[1])
    ELSE IF service.name = "postgres" THEN PostgresDevEnv(service.config[1])
    ELSE RedisDevEnv

\* The key of a "KEY=VALUE" entry: what stands before the first "=".
EnvKey(entry) ==
    LET eqs == {i \in 1..Len(entry) : entry[i] = "="}
    IN  IF eqs = {} THEN entry
        ELSE SubSeq(entry, 1, (CHOOSE i \in eqs : \A j \in eqs : i <= j) - 1)

\* Keeps of the entries that share a key only the last.
RECURSIVE LastPerKey(_)
LastPerKey(env) ==
    IF env = <<>> THEN <<>>
    ELSE IF \E j \in 2..Len(env) : EnvKey(env[j]) = EnvKey(env[1])
    THEN LastPerKey(Tail(env))
    ELSE <<env[1]>> \o LastPerKey(Tail(env))

\* `env_vars.extend(service.dev_env())` over the services
\* (services/mod.rs:69-75).
RECURSIVE ExtendAll(_)
ExtendAll(svcs) ==
    IF svcs = <<>> THEN <<>> ELSE dev_env(Head(svcs)) \o ExtendAll(Tail(svcs))

collect_service_env_vars_deduplicated(svcs) == LastPerKey(ExtendAll(svcs))
collect_service_env_vars(svcs) == ExtendAll(svcs)

ServicesInit ==
    /\ svc_config \in {Some(c) : c \in ServiceConfigs}
    /\ svc_list = None
    /\ svc_env = None
    /\ SessionOff /\ TagIdle /\ BuildIdle /\ NetIdle /\ CtrIdle /\ NamesIdle /\ ReadyIdle /\ HooksIdle /\ StaleIdle /\ MainIdle /\ CleanIdle /\ CliIdle

\* let services = collect_services(config, &project) (main.rs:592-593).
CollectServices ==
    /\ svc_list = None
    /\ svc_list' = Some(CollectedServices(svc_config[1]))
    /\ UNCHANGED <<svc_config, svc_env, sessionVars, tagVars, buildVars, netVars, ctrVars, nameVars, readyVars, hookVars, staleVars, mainVars, cleanVars, cliVars>>

\* collect_service_env_vars(&services) (main.rs:594).
CollectServiceEnvVars ==
    /\ svc_list # None
    /\ svc_env = None
    /\ svc_env' = Some(collect_service_env_vars(svc_list[1]))
    /\ UNCHANGED <<svc_config, svc_list, sessionVars, tagVars, buildVars, netVars, ctrVars, nameVars, readyVars, hookVars, staleVars, mainVars, cleanVars, cliVars>>

ServicesNext == CollectServices \/ CollectServiceEnvVars

SpecServices == ServicesInit /\ [][ServicesNext]_vars

\* Service::name of the services collected, in the order collected.
CollectedNames == [i \in 1..Len(svc_list[1]) |-> svc_list[1][i].name]

\* Position of a service in the order MySQL, Redis, PostgreSQL.
CollectRank(name) ==
    IF name = "mysql" THEN 1 ELSE IF name = "redis" THEN 2 ELSE 3

IsDatabase(name) == name \in {"mysql", "postgres"}
IsCache(name) == name = "redis"

\* C24 as stated: in what collect_services returns, every database-engine
\* service (MySQL, PostgreSQL) comes before every cache service (Redis).
C24_DatabasesBeforeCaches ==
    svc_list # None =>
        \A i \in 1..Len(CollectedNames) : \A j \in 1..Len(CollectedNames) :
            (IsDatabase(CollectedNames[i]) /\ IsCache(CollectedNames[j]))
                => i < j

\* C24 amended: collect_services returns exactly the enabled services (MySQL
\* when configured, Redis when set to true, PostgreSQL when configured),
\* each once, in the fixed order MySQL, Redis, PostgreSQL: MySQL comes
\* before the cache service and PostgreSQL after it.
C24_FixedOrderMysqlRedisPostgres ==
    svc_list # None =>
        /\ Range(CollectedNames) =
              {n \in {"mysql", "redis", "postgres"} : Enabled(svc_config[1])[n]}
        /\ \A i \in 1..Len(CollectedNames) : \A j \in 1..Len(CollectedNames) :
              i < j => CollectRank(CollectedNames[i]) < CollectRank(CollectedNames[j])

C24_Witness ==
    /\ svc_list # None
    /\ Len(svc_list[1]) = 2
    /\ CollectedNames = <<"redis", "postgres">>

\* The entries dev_env contributes for the service at position i of a list,
\* and where they start in the concatenation.
EnvOffset(svcs, i) ==
    LET lens == [k \in 1..Len(svcs) |-> Len(dev_env(svcs[k]))]
        RECURSIVE Sum(_)
        Sum(k) == IF k = 0 THEN 0 ELSE lens[k] + Sum(k - 1)
    IN  Sum(i - 1)

DefaultMysqlRedisEnv ==
    << <<"D", "B", "_", "H", "O", "S", "T", "=", "m", "y", "s", "q", "l">>,
       <<"D", "B", "_", "P", "O", "R", "T", "=", "3", "3", "0", "6">>,
       <<"D", "B", "_", "D", "A", "T", "A", "B", "A", "S", "E", "=", "a", "p", "p">>,
       <<"D", "B", "_", "U", "S", "E", "R", "N", "A", "M", "E", "=", "r", "o", "o", "t">>,
       <<"D", "B", "_", "P", "A", "S", "S", "W", "O", "R", "D", "=", "p", "a", "s", "s", "w", "o", "r", "d">>,
       <<"R", "E", "D", "I", "S", "_", "H", "O", "S", "T", "=", "r", "e", "d", "i", "s">>,
       <<"R", "E", "D", "I", "S", "_", "P", "O", "R", "T", "=", "6", "3", "7", "9">> >>

\* C25: collect_service_env_vars returns the dev_env lists of the collected
\* services one after the other, in collection order and with nothing
\* dropped; for default MySQL plus Redis that is the seven entries DB_HOST,
\* DB_PORT, DB_DATABASE, DB_USERNAME, DB_PASSWORD, REDIS_HOST, REDIS_PORT;
\* with both SQL engines enabled the DB_* entries of both are present and
\* those of PostgreSQL, collected later, come last.
C25_EnvIsConcatenation ==
    svc_env # None =>
        LET svcs == svc_list[1]
            env == svc_env[1]
            c == svc_config[1]
        IN  /\ Len(env) = EnvOffset(svcs, Len(svcs) + 1)
            /\ \A i \in 1..Len(svcs) :
                  SubSeq(env, EnvOffset(svcs, i) + 1, EnvOffset(svcs, i + 1))
                      = dev_env(svcs[i])
            /\ (c.mysql = Some(MysqlDefault) /\ c.redis = Some(TRUE)
                    /\ c.postgres = None)
                  => (env = DefaultMysqlRedisEnv /\ Len(env) = 7)
            /\ (c.mysql # None /\ c.postgres # None)
                  => /\ \A e \in Range(MysqlDevEnv(c.mysql[1])) : e \in Range(env)
                     /\ SubSeq(env, Len(env) - 4, Len(env))
                            = PostgresDevEnv(c.postgres[1])
                     /\ Len(env) = IF c.redis = Some(TRUE) THEN 12 ELSE 10

C25_Witness ==
    /\ svc_env # None
    /\ svc_config[1].mysql = Some(MysqlDefault)
    /\ svc_config[1].postgres = Some(PostgresDefault)
    /\ svc_config[1].redis = Some(TRUE)
    /\ Len(svc_env[1]) = 12
    /\ svc_env[1][3] = svc_env[1][10]

EnvKeys(env) == {EnvKey(e) : e \in Range(env)}

\* C26: every dev-container variable of a collected MySQL or PostgreSQL
\* service has a key that starts with DB_, every one of a collected Redis
\* service a key that starts with REDIS_, and when both SQL engines are
\* collected their variables have the same set of keys.
C26_KeyPrefixes ==
    svc_list # None =>
        /\ \A s \in Range(svc_list[1]) : \A e \in Range(dev_env(s)) :
              IF IsDatabase(s.name)
              THEN starts_with(EnvKey(e), <<"D", "B", "_">>)
              ELSE starts_with(EnvKey(e), <<"R", "E", "D", "I", "S", "_">>)
        /\ \A s \in Range(svc_list[1]) : \A t \in Range(svc_list[1]) :
              (IsDatabase(s.name) /\ IsDatabase(t.name))
                  => EnvKeys(dev_env(s)) = EnvKeys(dev_env(t))

C26_Witness ==
    /\ svc_list # None
    /\ Len(svc_list[1]) = 3
    /\ svc_config[1].mysql = Some(MysqlCustom)
    /\ svc_config[1].postgres = Some(PostgresCustom)
    /\ svc_env # None

\* ===================================== the registry lock, signal teardown
\* Properties of Spec about the mutex around CleanupState (main.rs:96, 615,
\* 640, 656) and about what the listener's cleanup removes (main.rs:43-99).

\* Caller p is inside cleanup: it has taken docker and an engine call of
\* its teardown has not returned yet.
InFlight(p) == td[p].pc \in {"dev_stop", "dev_rm", "svc_stop", "svc_rm", "net_rm"}

\* Nothing was written into registry r since the cleanup that met registry
\* s began: each field is as that cleanup met it or as it left it.
OnlyDrainedSince(r, s) ==
    /\ r.docker = None
    /\ r.dev_container_id \in {None, s.dev_container_id}
    /\ r.service_container_ids \in {<<>>, s.service_container_ids}
    /\ r.network_name \in {None, s.network_name}

\* C29: the mutex is held exactly while a teardown is between its first
\* take and the return of its last engine call; while it is, the registry
\* holds only what that teardown has not drained yet, so no registration
\* has taken effect in the middle of it; the two teardowns are never
\* inside cleanup at the same time; and engine calls come from one teardown
\* only, also when abort() drops the listener's teardown, and with it the
\* guard, at an await.
C29_TeardownHoldsLock ==
    /\ \A p \in Procs : InFlight(p) <=> lock = p
    /\ \A p \in Procs : InFlight(p) => OnlyDrainedSince(reg, snap[p][1])
    /\ ~(InFlight("fg") /\ InFlight("sig"))
    /\ calls["fg"] = <<>> \/ calls["sig"] = <<>>

C29_Witness ==
    /\ pc = "register_dev"
    /\ InFlight("sig")
    /\ lock = "sig"
    /\ Len(calls["sig"]) >= 1
    /\ DevId \in containers

\* Ids the teardown of caller p has issued a removal call for.
CalledBy(p) == {c.id : c \in Range(calls[p])}

\* C30: the listener's teardown issues removal calls only for the ids and
\* the network name the registry held when it began; it runs whatever the
\* foreground is doing, and a container created by then but absent from
\* that registry, such as one whose creation completes after the teardown
\* began, gets no call from it and stays in the engine unless the
\* foreground's own teardown removes it.
C30_SignalTeardownOnlyRegistered ==
    snap["sig"] # None =>
        /\ CalledBy("sig") \subseteq RegIds(snap["sig"][1])
        /\ \A c \in created \ {NetName} :
              (c \notin RegIds(snap["sig"][1]) /\ c \notin CalledBy("fg"))
                  => (c \in containers /\ c \notin CalledBy("sig"))

C30_Witness ==
    /\ exited.path = "signal"
    /\ calls["sig"] # <<>>
    /\ DevId \in containers
    /\ DevId \notin atEntry["sig"]
    /\ DevId \notin RegIds(snap["sig"][1])

\* C31: when run_shell has issued its first call that creates a network or
\* a container, the registry has been constructed with the engine handle
\* and the network name, the listener task has been spawned and its signal
\* handlers are installed; nothing is created while they are not.
C31_ArmedBeforeFirstCreate ==
    /\ fgLog # <<>> => (NetName \in registered /\ lpc # "none" /\ handlers)
    /\ created # {} => handlers

\* C32: both hook phases run while the dev container exists and before any
\* teardown has stopped or removed it: run_post_start after
\* create_and_start returned Ok, run_pre_stop after the exec returned.
C32_HooksWhileDevExists ==
    \A i \in 1..Len(fgLog) :
        /\ fgLog[i].op = "run_post_start"
              => (OkBefore(i, "create_and_start", DevId) /\ fgLog[i].ok)
        /\ fgLog[i].op = "run_pre_stop"
              => (execStatus # None /\ fgLog[i].ok)

\* C33: under FairSpec the session terminates: once a signal has been
\* delivered to the installed handlers the process eventually exits, once
\* the interactive exec has returned the process eventually exits, and a
\* held registry lock is eventually released (or the process has exited),
\* so neither task waits for the other forever.
C33_Terminates ==
    /\ (handlers /\ pending # {}) ~> ~Running
    /\ (execStatus # None) ~> ~Running
    /\ (lock # "free") ~> (lock = "free" \/ ~Running)

C33_Witness ==
    /\ exited.path = "normal"
    /\ pending # {}
    /\ lpc = "cancelled"
    /\ calls["sig"] # <<>>

\* C34: wait_for_ready returns Ok at the first probe that exits with
\* success and at no other: if that is probe k, then k <= max_retries,
\* exactly k probes and k - 1 sleeps were performed and none follows; a
\* probe that exited with another status or could not be spawned is a
\* failed attempt, counted and followed by the next one.
C34_FirstSuccessReturns ==
    ready_args # None =>
        /\ \A k \in 1..Len(Probes) :
              IF Probes[k].outcome = "success"
              THEN /\ k = Len(Probes)
                   /\ k <= ready_args[1].max_retries
                   /\ Len(Sleeps) = k - 1
                   /\ rpc = "done"
                   /\ ready_result = Some(Ok("unit"))
              ELSE /\ Probes[k].attempt = k
                   /\ k = Len(Probes) => (ready_result = None \/ ~ready_result[1].ok)
        /\ (ready_result # None /\ ready_result[1].ok)
              => (Len(Probes) >= 1 /\ Probes[Len(Probes)].outcome = "success")

C34_Witness ==
    /\ rpc = "done"
    /\ ready_args[1].max_retries = 3
    /\ Len(Probes) = 2
    /\ Probes[1].outcome = "spawn_error"
    /\ Probes[2].outcome = "success"
    /\ Len(Sleeps) = 1
    /\ ready_result = Some(Ok("unit"))


\* ============================================ stop_and_remove, cleanup_stale
\* ContainerManager::stop_and_remove (containers.rs:298-320) and the two
\* cleanup_stale functions (containers.rs:87-144, networks.rs:65-95), each
\* as one call on an engine that holds some containers and networks.

MaxStaleCalls == 1

FooX == <<"f", "o", "o", "-", "x">>

\* Containers the engine may hold; c3 carries two names.
StaleContainers ==
    {Container("c1", Foo), Container("c2", FooBar),
     [id |-> "c3", names |-> <<Slashed(XFoo), Slashed(FooX)>>]}

StaleNetworks == {Foo, FooBar, FooX}

StalePrefixes == {Foo, FooBar}

StaleInit ==
    /\ stale_containers \in SUBSET StaleContainers
    /\ stale_networks \in SUBSET StaleNetworks
    /\ stale_log = <<>>
    /\ SessionOff /\ TagIdle /\ BuildIdle /\ NetIdle /\ CtrIdle /\ NamesIdle /\ ReadyIdle /\ HooksIdle /\ ServicesIdle /\ MainIdle /\ CleanIdle /\ CliIdle

\* One call on the engine with its outcome.
EngineCall(op, id, ok) == [op |-> op, id |-> id, ok |-> ok]

\* A stop_and_remove that returns the error of a failed stop.
stop_and_remove_stop_checked(container_id, stopOk, removeOk) ==
    IF ~stopOk
    THEN [calls |-> <<EngineCall("stop_container", container_id, FALSE)>>,
          removed |-> {},
          result |-> Err(<<"failed to stop container", container_id>>)]
    ELSE [calls |-> <<EngineCall("stop_container", container_id, TRUE),
                      EngineCall("remove_container", container_id, removeOk)>>,
          removed |-> IF removeOk THEN {container_id} ELSE {},
          result |-> IF removeOk THEN Ok("unit")
                     ELSE Err(<<"failed to remove container", container_id>>)]

\* stop_and_remove (containers.rs:298-320): `let _ = stop_container(..)`
\* drops the stop's result, remove_container(force: true) follows and its
\* error is returned by `?`.
stop_and_remove(container_id, stopOk, removeOk) ==
    [calls |-> <<EngineCall("stop_container", container_id, stopOk),
                 EngineCall("remove_container", container_id, removeOk)>>,
     removed |-> IF removeOk THEN {container_id} ELSE {},
     result |-> IF removeOk THEN Ok("unit")
                ELSE Err(<<"failed to remove container", container_id>>)]

\* A call of stop_and_remove; the engine stops and removes only a container
\* it holds.
StopAndRemoveCall(container_id) ==
    /\ Len(stale_log) < MaxStaleCalls
    /\ \E stopOk \in BOOLEAN : \E removeOk \in BOOLEAN :
        /\ (stopOk \/ removeOk) => \E c \in stale_containers : c.id = container_id
        /\ LET out == stop_and_remove(container_id, stopOk, removeOk)
           IN  /\ stale_containers' =
                      {c \in stale_containers : c.id \notin out.removed}
               /\ stale_log' = Append(stale_log,
                      [op |-> "stop_and_remove", arg |-> container_id,
                       listing |-> None, calls |-> out.calls,
                       result |-> out.result])
    /\ UNCHANGED <<stale_networks, sessionVars, tagVars, buildVars, netVars, ctrVars, nameVars, readyVars, hookVars, svcVars, mainVars, cleanVars, cliVars>>

\* A count of the removals attempted.
CountAttempted(removed, ok) == removed + 1

\* Ok(()) => removed += 1; Err(e) => warn! (containers.rs:130-138,
\* networks.rs:82-91).
CountRemoved(removed, ok) == IF ok THEN removed + 1 ELSE removed

\* names.iter().any(|n| matches_stale_prefix(n, project_prefix))
\* (containers.rs:106-109).
is_match(c, project_prefix) ==
    \E n \in Range(c.names) : container_matches_stale_prefix(n, project_prefix)

\* The loop of ContainerManager::cleanup_stale (containers.rs:105-141) from
\* a count of `removed` on: each match is stopped (result dropped) and
\* force-removed, a failed remove is logged and the loop goes on.
RECURSIVE ContainerStaleLoop(_, _, _, _, _)
ContainerStaleLoop(listing, project_prefix, stopFailing, removeFailing, removed) ==
    IF listing = <<>> THEN [calls |-> <<>>, removed |-> removed]
    ELSE LET c == Head(listing)
         IN  IF ~is_match(c, project_prefix)
             THEN ContainerStaleLoop(Tail(listing), project_prefix,
                                     stopFailing, removeFailing, removed)
             ELSE LET ok == c.id \notin removeFailing
                      rest == ContainerStaleLoop(Tail(listing), project_prefix,
                                  stopFailing, removeFailing,
                                  CountRemoved(removed, ok))
                  IN  [calls |-> <<EngineCall("stop_container", c.id,
                                              c.id \notin stopFailing),
                                   EngineCall("remove_container", c.id, ok)>>
                                 \o rest.calls,
                       removed |-> rest.removed]

\* The engine's list_containers (all: true) under the name filter
\* (containers.rs:90-101): partial matches.
StaleListContainers(project_prefix) ==
    {c \in stale_containers :
        \E n \in Range(c.names) : IsSubstring(project_prefix, n)}

\* ContainerManager::cleanup_stale (containers.rs:87-144).
ContainerCleanupStale(project_prefix) ==
    /\ Len(stale_log) < MaxStaleCalls
    /\ \E listOk \in BOOLEAN :
        IF ~listOk
        THEN /\ stale_log' = Append(stale_log,
                    [op |-> "containers.cleanup_stale", arg |-> project_prefix,
                     listing |-> None, calls |-> <<>>,
                     result |-> Err(<<"failed to list containers for stale detection", "engine">>)])
             /\ UNCHANGED stale_containers
        ELSE \E listing \in Orderings(StaleListContainers(project_prefix)) :
             \E stopFailing \in SUBSET {c.id : c \in Range(listing)} :
             \E removeFailing \in SUBSET {c.id : c \in Range(listing)} :
                LET out == ContainerStaleLoop(listing, project_prefix,
                                              stopFailing, removeFailing, 0)
                    gone == {x.id : x \in {y \in Range(out.calls) :
                                y.op = "remove_container" /\ y.ok}}
                IN  /\ stale_containers' =
                           {c \in stale_containers : c.id \notin gone}
                    /\ stale_log' = Append(stale_log,
                           [op |-> "containers.cleanup_stale",
                            arg |-> project_prefix,
                            listing |-> Some(Range(listing)),
                            calls |-> out.calls,
                            result |-> Ok(out.removed)])
    /\ UNCHANGED <<stale_networks, sessionVars, tagVars, buildVars, netVars, ctrVars, nameVars, readyVars, hookVars, svcVars, mainVars, cleanVars, cliVars>>

\* The loop of NetworkManager::cleanup_stale (networks.rs:78-93).
RECURSIVE NetworkStaleLoop(_, _, _, _)
NetworkStaleLoop(listing, project_prefix, removeFailing, removed) ==
    IF listing = <<>> THEN [calls |-> <<>>, removed |-> removed]
    ELSE LET name == Head(listing)
         IN  IF ~network_matches_stale_prefix(name, project_prefix)
             THEN NetworkStaleLoop(Tail(listing), project_prefix,
                                   removeFailing, removed)
             ELSE LET ok == name \notin removeFailing
                      rest == NetworkStaleLoop(Tail(listing), project_prefix,
                                  removeFailing, CountRemoved(removed, ok))
                  IN  [calls |-> <<EngineCall("remove_network", name, ok)>>
                                 \o rest.calls,
                       removed |-> rest.removed]

\* NetworkManager::cleanup_stale (networks.rs:65-95); the engine's
\* list_networks under the name filter gives partial matches.
NetworkCleanupStale(project_prefix) ==
    /\ Len(stale_log) < MaxStaleCalls
    /\ \E listOk \in BOOLEAN :
        IF ~listOk
        THEN /\ stale_log' = Append(stale_log,
                    [op |-> "networks.cleanup_stale", arg |-> project_prefix,
                     listing |-> None, calls |-> <<>>,
                     result |-> Err(<<"failed to list networks for stale detection", "engine">>)])
             /\ UNCHANGED stale_networks
        ELSE \E listing \in Orderings({n \in stale_networks :
                                          IsSubstring(project_prefix, n)}) :
             \E removeFailing \in SUBSET Range(listing) :
                LET out == NetworkStaleLoop(listing, project_prefix,
                                            removeFailing, 0)
                    gone == {x.id : x \in {y \in Range(out.calls) : y.ok}}
                IN  /\ stale_networks' = stale_networks \ gone
                    /\ stale_log' = Append(stale_log,
                           [op |-> "networks.cleanup_stale",
                            arg |-> project_prefix,
                            listing |-> Some(Range(listing)),
                            calls |-> out.calls,
                            result |-> Ok(out.removed)])
    /\ UNCHANGED <<stale_containers, sessionVars, tagVars, buildVars, netVars, ctrVars, nameVars, readyVars, hookVars, svcVars, mainVars, cleanVars, cliVars>>

StaleNext ==
    \/ \E id \in {"c1", "c2", "c3"} : StopAndRemoveCall(id)
    \/ \E prefix \in StalePrefixes : ContainerCleanupStale(prefix)
    \/ \E prefix \in StalePrefixes : NetworkCleanupStale(prefix)

SpecStale == StaleInit /\ [][StaleNext]_vars

\* C35: stop_and_remove(id) issues the stop call and then the force-remove
\* call on id, whether or not the stop succeeded, and returns an error
\* exactly when the remove call fails.
C35_RemoveAlwaysFollowsStop ==
    \A i \in 1..Len(stale_log) :
        LET e == stale_log[i]
        IN  e.op = "stop_and_remove" =>
              /\ Len(e.calls) = 2
              /\ e.calls[1].op = "stop_container" /\ e.calls[1].id = e.arg
              /\ e.calls[2].op = "remove_container" /\ e.calls[2].id = e.arg
              /\ e.result.ok <=> e.calls[2].ok

C35_Witness ==
    \E i \in 1..Len(stale_log) :
        /\ stale_log[i].op = "stop_and_remove"
        /\ ~stale_log[i].calls[1].ok
        /\ stale_log[i].calls[2].ok
        /\ stale_log[i].result = Ok("unit")

\* The listed resources of a cleanup_stale call that fall under the
\* stale-prefix rule, by the id the removal names.
StaleMatches(e) ==
    IF e.op = "containers.cleanup_stale"
    THEN {c.id : c \in {x \in e.listing[1] :
            \E k \in 1..Len(x.names) :
                \/ x.names[k] = <<"/">> \o e.arg
                \/ IsPrefix(<<"/">> \o e.arg \o <<"-">>, x.names[k])}}
    ELSE {n \in e.listing[1] : n = e.arg \/ IsPrefix(e.arg \o <<"-">>, n)}

\* The removal calls of a log entry.
Removals(e) ==
    {k \in 1..Len(e.calls) : e.calls[k].op \in {"remove_container", "remove_network"}}

\* C36: cleanup_stale(prefix), of containers and of networks, attempts the
\* removal of every listed resource that matches the stale-prefix rule,
\* once, and of no other; a failed removal does not stop it; the count it
\* returns is the number of removals that succeeded.
C36_StaleRemovedAndCounted ==
    \A i \in 1..Len(stale_log) :
        LET e == stale_log[i]
        IN  (e.op # "stop_and_remove" /\ e.listing # None) =>
              /\ {e.calls[k].id : k \in Removals(e)} = StaleMatches(e)
              /\ Cardinality(Removals(e)) = Cardinality(StaleMatches(e))
              /\ e.result =
                    Ok(Cardinality({k \in Removals(e) : e.calls[k].ok}))

C36_Witness ==
    \E i \in 1..Len(stale_log) :
        /\ stale_log[i].op = "containers.cleanup_stale"
        /\ stale_log[i].arg = Foo
        /\ stale_log[i].listing = Some(StaleContainers)
        /\ stale_log[i].calls =
              <<EngineCall("stop_container", "c1", TRUE),
                EngineCall("remove_container", "c1", FALSE),
                EngineCall("stop_container", "c3", FALSE),
                EngineCall("remove_container", "c3", TRUE)>>
        /\ stale_log[i].result = Ok(1)


\* ------------------------------------------------- teardown and the network
\* C37: a teardown that has returned and found the session's network name
\* in the registry when it was entered has issued remove_network for it,
\* whether ensure_network created the network, reused it or has not been
\* called yet.
C37_NetworkRemovalAttempted ==
    \A p \in Procs :
        (/\ td[p].pc = "returned"
         /\ snap[p] # None
         /\ snap[p][1].network_name # None)
        => RemoveNetwork(NetName) \in Range(calls[p])

\* A teardown that finds the engine handle and returns has issued
\* remove_network for the registered name: also for a network that existed
\* before the session, and before ensure_network was called.
C37_WithEngineHandle ==
    \A p \in Procs :
        (/\ td[p].pc = "returned"
         /\ snap[p] # None
         /\ snap[p][1].docker # None
         /\ snap[p][1].network_name # None)
        => RemoveNetwork(NetName) \in Range(calls[p])


\* ================================================================= dry run
\* main (main.rs:101-126) with the functions it dispatches to, as far as
\* they reach outside the process: the engine connection, engine calls,
\* processes of the container CLI, the signal listener.

Subcommands == {"shell", "claude", "chief", "exec", "build", "config", "clean"}

SessionCommands == {"shell", "claude", "chief"}

\* The parsed command line: cli.command(), cli.container.dry_run and the
\* --volumes flag of clean.
Clis ==
    {c \in [command : Subcommands, dry_run : BOOLEAN, volumes : BOOLEAN] :
        c.volumes => c.command = "clean"}

\* What the dry run reads of the resolved configuration.
MainConfigs == [services : {<<>>, <<"mysql">>}, hooks : BOOLEAN]

MainInit ==
    /\ main_cli \in {Some(c) : c \in Clis}
    /\ main_config = None
    /\ main_pc = "load"
    /\ main_effects = {}
    /\ main_out = <<>>
    /\ main_result = None
    /\ SessionOff /\ TagIdle /\ BuildIdle /\ NetIdle /\ CtrIdle /\ NamesIdle /\ ReadyIdle /\ HooksIdle /\ ServicesIdle /\ StaleIdle /\ CleanIdle /\ CliIdle

\* main returns: `?` or the value of the function it ran.
MainReturn(result) ==
    /\ main_pc' = "done"
    /\ main_result' = Some(result)

\* Config::load(&cli)? (main.rs:108): files and flags only.
MainLoad ==
    /\ main_pc = "load"
    /\ \/ \E c \in MainConfigs :
            /\ main_config' = Some(c)
            /\ main_pc' = "dispatch"
            /\ UNCHANGED main_result
       \/ /\ MainReturn(Err(<<"failed to parse config", "file">>))
          /\ UNCHANGED main_config
    /\ UNCHANGED <<main_cli, main_effects, main_out>>
    /\ UNCHANGED <<sessionVars, tagVars, buildVars, netVars, ctrVars, nameVars, readyVars, hookVars, svcVars, staleVars, cleanVars, cliVars>>

\* A dry run that only session commands honour.
DryRunOfSessions(cli) == cli.dry_run /\ cli.command \in SessionCommands

\* if cli.container.dry_run (main.rs:111).
DryRunRequested(cli) == cli.dry_run

\* main.rs:111-125: the dry run is taken before the match on the command.
MainDispatch ==
    /\ main_pc = "dispatch"
    /\ LET cli == main_cli[1]
       IN  IF DryRunRequested(cli)
           THEN main_pc' = "dry_config" /\ UNCHANGED main_result
           ELSE IF cli.command \in SessionCommands \cup {"clean"}
           THEN main_pc' = "connect" /\ UNCHANGED main_result
           ELSE IF cli.command = "config"
           THEN main_pc' = "run_config" /\ UNCHANGED main_result
           ELSE MainReturn(Ok("unit"))
    /\ UNCHANGED <<main_cli, main_config, main_effects, main_out>>
    /\ UNCHANGED <<sessionVars, tagVars, buildVars, netVars, ctrVars, nameVars, readyVars, hookVars, svcVars, staleVars, cleanVars, cliVars>>

\* run_dry_run, first part (main.rs:139-185): the resolved config is
\* printed; config and clean print one line and return.
DryConfig ==
    /\ main_pc = "dry_config"
    /\ \/ /\ MainReturn(Err(<<"toml", "serialize">>))
          /\ UNCHANGED main_out
       \/ LET cmd == main_cli[1].command
          IN  IF cmd = "config"
              THEN /\ main_out' = main_out \o <<"resolved config", "no Docker operations">>
                   /\ MainReturn(Ok("unit"))
              ELSE IF cmd = "clean"
              THEN /\ main_out' = main_out \o <<"resolved config", "would remove">>
                   /\ MainReturn(Ok("unit"))
              ELSE /\ main_out' = Append(main_out, "resolved config")
                   /\ main_pc' = "dry_render"
                   /\ UNCHANGED main_result
    /\ UNCHANGED <<main_cli, main_config, main_effects>>
    /\ UNCHANGED <<sessionVars, tagVars, buildVars, netVars, ctrVars, nameVars, readyVars, hookVars, svcVars, staleVars, cleanVars, cliVars>>

\* run_dry_run, second part (main.rs:187-192): the Dockerfile is rendered,
\* tagged and printed.
DryRender ==
    /\ main_pc = "dry_render"
    /\ \/ /\ MainReturn(Err(<<"template", "render">>))
          /\ UNCHANGED main_out
       \/ /\ main_out' = Append(main_out, "generated Dockerfile")
          /\ main_pc' = "dry_commands"
          /\ UNCHANGED main_result
    /\ UNCHANGED <<main_cli, main_config, main_effects>>
    /\ UNCHANGED <<sessionVars, tagVars, buildVars, netVars, ctrVars, nameVars, readyVars, hookVars, svcVars, staleVars, cleanVars, cliVars>>

\* One printed line per entry of a list.
RECURSIVE LinesFor(_, _)
LinesFor(line, list) ==
    IF list = <<>> THEN <<>> ELSE <<line>> \o LinesFor(line, Tail(list))

\* run_dry_run, third part (main.rs:194-266): the commands a session would
\* run are printed as text.
DryCommands ==
    /\ main_pc = "dry_commands"
    /\ \/ /\ MainReturn(Err(<<"current_dir", "io">>))
          /\ UNCHANGED main_out
       \/ /\ main_out' = main_out
                \o <<"docker build", "docker network create">>
                \o LinesFor("docker run -d (service)", main_config[1].services)
                \o <<"docker run -d (dev)", "docker exec">>
                \o (IF main_config[1].hooks THEN <<"hooks">> ELSE <<>>)
          /\ MainReturn(Ok("unit"))
    /\ UNCHANGED <<main_cli, main_config, main_effects>>
    /\ UNCHANGED <<sessionVars, tagVars, buildVars, netVars, ctrVars, nameVars, readyVars, hookVars, svcVars, staleVars, cleanVars, cliVars>>

\* run_config (main.rs:290-294).
RunConfig ==
    /\ main_pc = "run_config"
    /\ \/ /\ MainReturn(Err(<<"toml", "serialize">>))
          /\ UNCHANGED main_out
       \/ /\ main_out' = Append(main_out, "resolved config")
          /\ MainReturn(Ok("unit"))
    /\ UNCHANGED <<main_cli, main_config, main_effects>>
    /\ UNCHANGED <<sessionVars, tagVars, buildVars, netVars, ctrVars, nameVars, readyVars, hookVars, svcVars, staleVars, cleanVars, cliVars>>

\* Docker::connect_with_local_defaults() at the head of run_shell,
\* run_claude, run_chief and run_clean (main.rs:547, 426, 305, 297).
Connect ==
    /\ main_pc = "connect"
    /\ main_effects' = main_effects \cup {"engine_connect"}
    /\ \/ MainReturn(Err(<<"failed to connect to Docker", "engine">>))
       \/ /\ main_pc' = IF main_cli[1].command = "clean" THEN "clean" ELSE "build"
          /\ UNCHANGED main_result
    /\ UNCHANGED <<main_cli, main_config, main_out>>
    /\ UNCHANGED <<sessionVars, tagVars, buildVars, netVars, ctrVars, nameVars, readyVars, hookVars, svcVars, staleVars, cleanVars, cliVars>>

\* run_clean (main.rs:296-302): Cleaner::clean lists and removes through
\* the engine.
RunClean ==
    /\ main_pc = "clean"
    /\ main_effects' = main_effects \cup {"engine_call"}
    /\ \E ok \in BOOLEAN :
        MainReturn(IF ok THEN Ok("unit") ELSE Err(<<"failed to list images", "engine">>))
    /\ UNCHANGED <<main_cli, main_config, main_out>>
    /\ UNCHANGED <<sessionVars, tagVars, buildVars, netVars, ctrVars, nameVars, readyVars, hookVars, svcVars, staleVars, cleanVars, cliVars>>

\* A session command up to the registry: the image is built through the
\* engine (main.rs:570-580), the listener is spawned (main.rs:602).
SessionBuild ==
    /\ main_pc = "build"
    /\ \/ /\ main_effects' = main_effects \cup {"engine_call"}
          /\ MainReturn(Err(<<"build failed", "engine">>))
       \/ /\ main_effects' = main_effects \cup {"engine_call", "signal_listener"}
          /\ main_pc' = "containers"
          /\ UNCHANGED main_result
    /\ UNCHANGED <<main_cli, main_config, main_out>>
    /\ UNCHANGED <<sessionVars, tagVars, buildVars, netVars, ctrVars, nameVars, readyVars, hookVars, svcVars, staleVars, cleanVars, cliVars>>

\* The network and the containers are created through the engine
\* (main.rs:606-637), the exec and the hooks are processes of the container
\* CLI (main.rs:644-653).
SessionRun ==
    /\ main_pc = "containers"
    /\ \/ /\ main_effects' = main_effects \cup {"engine_call"}
          /\ MainReturn(Err(<<"failed to create container", "engine">>))
       \/ /\ main_effects' = main_effects \cup {"engine_call", "cli_process"}
          /\ MainReturn(Ok("unit"))
    /\ UNCHANGED <<main_cli, main_config, main_out>>
    /\ UNCHANGED <<sessionVars, tagVars, buildVars, netVars, ctrVars, nameVars, readyVars, hookVars, svcVars, staleVars, cleanVars, cliVars>>

MainNext ==
    \/ MainLoad
    \/ MainDispatch
    \/ DryConfig
    \/ DryRender
    \/ DryCommands
    \/ RunConfig
    \/ Connect
    \/ RunClean
    \/ SessionBuild
    \/ SessionRun

SpecMain == MainInit /\ [][MainNext]_vars

\* C38: with --dry-run, whatever the subcommand, the program makes no
\* engine connection and no engine call, spawns no process of the container
\* CLI and starts no signal listener.
C38_DryRunTouchesNothing ==
    (main_cli # None /\ main_cli[1].dry_run) => main_effects = {}

C38_Witness ==
    /\ main_cli # None /\ main_cli[1].dry_run
    /\ main_cli[1].command = "shell"
    /\ main_pc = "done"
    /\ main_result = Some(Ok("unit"))
    /\ main_out = <<"resolved config", "generated Dockerfile", "docker build",
                    "docker network create", "docker run -d (service)",
                    "docker run -d (dev)", "docker exec">>
    /\ main_effects = {}


\* =================================================================== clean
\* Cleaner::clean (docker/clean.rs:22-58) on an engine that holds what
\* sessions leave behind: images tagged by compute_tag, networks named by
\* default_network_name, the named volumes of the services.

\* volume_name of MysqlService (mysql.rs:18-20).
MysqlVolumeName(project) == BubbleBot \o project \o <<"-", "m", "y", "s", "q", "l", "-", "d", "a", "t", "a">>

\* volume_name of PostgresService (postgres.rs:17-20).
PostgresVolumeName(project) == BubbleBoy \o project \o <<"-", "p", "o", "s", "t", "g", "r", "e", "s", "-", "d", "a", "t", "a">>

\* An image as the engine lists it.
Image(tag) == [id |-> <<"sha256:">> \o tag, repo_tags |-> <<tag>>]

\* Tags compute_tag gives to rendered Dockerfiles.
SessionTags == {compute_tag(TextEmpty), compute_tag(TextScratchA)}

CleanProject == <<"a">>

\* What sessions generate, and one resource of each kind that is not theirs.
SessionImages == {Image(t) : t \in SessionTags}
SessionNetworks == {DefaultNetworkName(CleanProject)}
SessionVolumes == {MysqlVolumeName(CleanProject), PostgresVolumeName(CleanProject)}
OtherImage == Image(<<"b", "u", "b", "b", "l", "e", "-", "b", "o", "t", ":", "o", "l", "d">>)
OtherNetwork == <<"b", "r", "i", "d", "g", "e">>

CleanInit ==
    /\ clean_args \in {Some([remove_volumes |-> v]) : v \in BOOLEAN}
    /\ clean_pc = "images"
    /\ clean_engine \in [images : SUBSET (SessionImages \cup {OtherImage}),
                         networks : SUBSET (SessionNetworks \cup {OtherNetwork}),
                         volumes : SUBSET SessionVolumes]
    /\ clean_before = clean_engine
    /\ clean_calls = {}
    /\ clean_result = None
    /\ SessionOff /\ TagIdle /\ BuildIdle /\ NetIdle /\ CtrIdle /\ NamesIdle /\ ReadyIdle /\ HooksIdle /\ ServicesIdle /\ StaleIdle /\ MainIdle /\ CliIdle

\* The repository of a tag: what precedes its first colon.
RECURSIVE Repository(_)
Repository(tag) ==
    IF tag = <<>> \/ Head(tag) = ":" THEN <<>>
    ELSE <<Head(tag)>> \o Repository(Tail(tag))

\* The engine's "reference" filter of list_images: images with a tag of
\* the repository named.
ListImagesByReference(reference) ==
    {im \in clean_engine.images :
        \E k \in 1..Len(im.repo_tags) : Repository(im.repo_tags[k]) = reference}

\* The engine's "name" filter of list_networks and list_volumes: partial
\* matches.
ListByName(names, name) == {n \in names : IsSubstring(name, n)}

\* image.repo_tags.first().cloned().unwrap_or_else(|| image.id.clone())
\* (clean.rs:84-88).
remove_id(image) ==
    IF image.repo_tags # <<>> THEN image.repo_tags[1] ELSE image.id

\* clean returns the error of a failed listing.
CleanReturn(result) ==
    /\ clean_pc' = "done"
    /\ clean_result' = Some(result)

\* remove_images (clean.rs:61-111): every listed image is force-removed, a
\* failed removal is logged.
RemoveImages ==
    /\ clean_pc = "images"
    /\ \/ /\ CleanReturn(Err(<<"failed to list images", "engine">>))
          /\ UNCHANGED <<clean_engine, clean_calls>>
       \/ LET images == ListImagesByReference(<<"b", "u", "b", "b", "l", "e", "-", "b", "o", "t">>)
          IN  \E failing \in SUBSET images :
                /\ clean_calls' = clean_calls \cup
                      {EngineCall("remove_image", remove_id(im), im \notin failing) :
                          im \in images}
                /\ clean_engine' = [clean_engine EXCEPT
                      !.images = {im \in clean_engine.images :
                                     im \notin images \/ im \in failing}]
                /\ clean_pc' = "networks"
                /\ UNCHANGED clean_result
    /\ UNCHANGED <<clean_args, clean_before>>
    /\ UNCHANGED <<sessionVars, tagVars, buildVars, netVars, ctrVars, nameVars, readyVars, hookVars, svcVars, staleVars, mainVars, cliVars>>

\* remove_networks (clean.rs:114-147): listed networks whose name starts
\* with "bubble-bot-" are removed.
RemoveNetworks ==
    /\ clean_pc = "networks"
    /\ \/ /\ CleanReturn(Err(<<"failed to list networks", "engine">>))
          /\ UNCHANGED <<clean_engine, clean_calls>>
       \/ LET networks == {n \in ListByName(clean_engine.networks, BubbleBot) :
                              starts_with(n, BubbleBot)}
          IN  \E failing \in SUBSET networks :
                /\ clean_calls' = clean_calls \cup
                      {EngineCall("remove_network", n, n \notin failing) :
                          n \in networks}
                /\ clean_engine' = [clean_engine EXCEPT
                      !.networks = {n \in clean_engine.networks :
                                       n \notin networks \/ n \in failing}]
                /\ IF clean_args[1].remove_volumes
                   THEN clean_pc' = "volumes" /\ UNCHANGED clean_result
                   ELSE CleanReturn(Ok("unit"))
    /\ UNCHANGED <<clean_args, clean_before>>
    /\ UNCHANGED <<sessionVars, tagVars, buildVars, netVars, ctrVars, nameVars, readyVars, hookVars, svcVars, staleVars, mainVars, cliVars>>

\* remove_volumes (clean.rs:150-185), run when --volumes was given
\* (clean.rs:25-29).
RemoveVolumes ==
    /\ clean_pc = "volumes"
    /\ \/ /\ CleanReturn(Err(<<"failed to list volumes", "engine">>))
          /\ UNCHANGED <<clean_engine, clean_calls>>
       \/ LET volumes == {v \in ListByName(clean_engine.volumes, BubbleBot) :
                             starts_with(v, BubbleBot)}
          IN  \E failing \in SUBSET volumes :
                /\ clean_calls' = clean_calls \cup
                      {EngineCall("remove_volume", v, v \notin failing) :
                          v \in volumes}
                /\ clean_engine' = [clean_engine EXCEPT
                      !.volumes = {v \in clean_engine.volumes :
                                      v \notin volumes \/ v \in failing}]
                /\ CleanReturn(Ok("unit"))
    /\ UNCHANGED <<clean_args, clean_before>>
    /\ UNCHANGED <<sessionVars, tagVars, buildVars, netVars, ctrVars, nameVars, readyVars, hookVars, svcVars, staleVars, mainVars, cliVars>>

CleanNext ==
    \/ RemoveImages
    \/ RemoveNetworks
    \/ RemoveVolumes

SpecClean == CleanInit /\ [][CleanNext]_vars

\* The targets of the removal calls of one kind that clean has issued.
CleanSelected(op) == {c.id : c \in {x \in clean_calls : x.op = op}}

\* C39: a clean that has returned Ok has selected for removal every image
\* whose tag compute_tag generates, every network of a default network name
\* and, with --volumes, every named volume of a service that the engine
\* held when it was called.
C39_CleanCoversGeneratedNames ==
    (clean_result # None /\ clean_result[1].ok) =>
        /\ \A im \in clean_before.images :
              im.repo_tags[1] \in SessionTags =>
                  im.repo_tags[1] \in CleanSelected("remove_image")
        /\ \A n \in clean_before.networks :
              n \in SessionNetworks => n \in CleanSelected("remove_network")
        /\ clean_args[1].remove_volumes =>
              \A v \in clean_before.volumes :
                  v \in SessionVolumes => v \in CleanSelected("remove_volume")

\* The default network names and the MySQL volume are selected by clean.
C39_NetworksAndMysqlVolumeCovered ==
    (clean_result # None /\ clean_result[1].ok) =>
        /\ clean_before.networks \cap SessionNetworks
              \subseteq CleanSelected("remove_network")
        /\ clean_args[1].remove_volumes =>
              (MysqlVolumeName(CleanProject) \in clean_before.volumes
                  => MysqlVolumeName(CleanProject) \in CleanSelected("remove_volume"))


\* =============================================================== apply_cli
\* The container flags of the command line (cli.rs:97-120) laid over the
\* [container] section of the config files by
\* Config::apply_container_flags (config.rs:228-241).

ShellNames == {"bash", "zsh", "fish"}

\* What the command line may give: each option is given or left out.
ContainerArgs ==
    [network : {None, Some("cli-net")},
     name : {None, Some("cli-name")},
     shell : {None} \cup {Some(s) : s \in ShellNames}]

\* [container] of the merged config files.
ContainerConfigs ==
    [network : {None, Some("file-net")},
     name : {None, Some("file-name")},
     shell : {None} \cup {Some(s) : s \in ShellNames}]

CliInit ==
    /\ cli_argv \in {Some(a) : a \in ContainerArgs}
    /\ cli_flags = None
    /\ cli_file \in {Some(c) : c \in ContainerConfigs}
    /\ cli_config = None
    /\ SessionOff /\ TagIdle /\ BuildIdle /\ NetIdle /\ CtrIdle /\ NamesIdle /\ ReadyIdle /\ HooksIdle /\ ServicesIdle /\ StaleIdle /\ MainIdle /\ CleanIdle

\* #[arg(long, default_value = "bash")] pub shell: String (cli.rs:110-112).
DefaultShell == "bash"

\* The value apply_container_flags takes for "--shell was not given"
\* (config.rs:238).
UnsetShell == "zsh"

\* Cli::parse: an option left out is None, the shell gets its default.
ParseFlags ==
    /\ cli_argv # None /\ cli_flags = None
    /\ cli_flags' = Some([network |-> cli_argv[1].network,
                          name |-> cli_argv[1].name,
                          shell |-> IF cli_argv[1].shell = None
                                    THEN DefaultShell
                                    ELSE cli_argv[1].shell[1]])
    /\ UNCHANGED <<cli_argv, cli_file, cli_config>>
    /\ UNCHANGED <<sessionVars, tagVars, buildVars, netVars, ctrVars, nameVars, readyVars, hookVars, svcVars, staleVars, mainVars, cleanVars>>

\* Config::apply_container_flags (config.rs:228-241).
apply_container_flags(container, flags) ==
    [network |-> IF flags.network # None THEN flags.network ELSE container.network,
     name |-> IF flags.name # None THEN flags.name ELSE container.name,
     shell |-> IF flags.shell # UnsetShell \/ container.shell = None
               THEN Some(flags.shell)
               ELSE container.shell]

\* config.apply_cli(cli) (config.rs:191-195, 133).
ApplyCli ==
    /\ cli_flags # None /\ cli_config = None
    /\ cli_config' = Some(apply_container_flags(cli_file[1], cli_flags[1]))
    /\ UNCHANGED <<cli_argv, cli_flags, cli_file>>
    /\ UNCHANGED <<sessionVars, tagVars, buildVars, netVars, ctrVars, nameVars, readyVars, hookVars, svcVars, staleVars, mainVars, cleanVars>>

CliNext ==
    \/ ParseFlags
    \/ ApplyCli

SpecCli == CliInit /\ [][CliNext]_vars

\* C40: once apply_cli has run, a config-file shell stands when --shell
\* was not given, a --shell that was given replaces it, and with no
\* config-file shell the command line's value (given or default) is used.
C40_ShellPrecedence ==
    cli_config # None =>
        LET given == cli_argv[1].shell
            file == cli_file[1].shell
            shell == cli_config[1].shell
        IN  /\ (given = None /\ file # None) => shell = file
            /\ given # None => shell = given
            /\ file = None => shell = Some(cli_flags[1].shell)

\* With no config-file shell the command line's value is used, and a
\* --shell other than zsh replaces a config-file shell.
C40_WithoutFileShell ==
    cli_config # None =>
        /\ cli_file[1].shell = None => cli_config[1].shell = Some(cli_flags[1].shell)
        /\ (cli_argv[1].shell # None /\ cli_argv[1].shell # Some("zsh"))
              => cli_config[1].shell = cli_argv[1].shell

====
